---------------------------- MODULE Spec2Model ----------------------------
(***************************************************************************)
(* Persisted-data consistency subsystem of the Harada-method matrix tool:  *)
(* the entity graph (goal -> focus areas -> tasks) with its factories,     *)
(* CRUD operations and addition guards, the migration engine, and the      *)
(* serialization / load pipeline of the storage module.                    *)
(*                                                                         *)
(* Ids (generateId, `${Date.now()}-${random}`) are modelled as fresh       *)
(* integers, Date objects as integer instants (undefined = 0), strings as  *)
(* strings.                                                                *)
(***************************************************************************)
EXTENDS Integers, Sequences, FiniteSets, TLC

VARIABLES
    matrixData,   \* the MatrixData held by the application state holder
    prevData,     \* the MatrixData the last operation was called on
    callerData,   \* that same object as the operation left it
    lastOp,       \* the last operation: name, arguments, thrown or not
    nextId,       \* source of fresh ids (generateId)
    opCount,      \* operations performed so far (also drives the clock)
    guarded,      \* every addition so far was made where its guard passes
    migrations,   \* MigrationEngine.migrations: the registered migrations
    storedData,   \* the StoredMatrixData envelope handed to migrate
    givenData,    \* that envelope as it was before the call
    migResult,    \* the MigrationResult of the call, NoResult before it
    localStorage, \* the browser store: the primary keys and the backup keys
    storeOp,      \* the last function that wrote to the store, and how many did
    backupResult, \* outcome of the last createBackup, NoBackup before it
    restoreResult, \* outcome of the last restoreFromBackup, NoRestore before it
    saveResult,   \* outcome of the last saveMatrixData, NoSave before it
    loadResult,   \* outcome of the last loadMatrixData, NoLoad before it
    roundTrip,    \* a MatrixData and what serialize / deserialize made of it
    app,          \* App: its matrixData state, the recovery dialog, the mount effect
    auto,         \* useAutoSave: its state, refs and timer, and the clock
    compared,     \* two versions and what VersionUtils made of them
    validated     \* a MatrixData and what the validators said about it

crudVars == <<matrixData, prevData, callerData, lastOp, nextId, opCount, guarded>>
migVars == <<migrations, storedData, givenData, migResult>>
storeVars == <<localStorage, storeOp, saveResult, backupResult, restoreResult, loadResult, roundTrip>>
appVars == <<app>>
autoVars == <<auto>>
versionVars == <<compared, validated>>
notCrudVars == <<migVars, storeVars, appVars, autoVars, versionVars>>
notMigVars == <<crudVars, storeVars, appVars, autoVars, versionVars>>
notStoreVars == <<crudVars, migVars, appVars, autoVars, versionVars>>
notAutoVars == <<crudVars, migVars, storeVars, appVars, versionVars>>
notVersionVars == <<crudVars, migVars, storeVars, appVars, autoVars>>
vars == <<crudVars, migVars, storeVars, appVars, autoVars, versionVars>>

-----------------------------------------------------------------------------
(* Bounds of the model *)

\* operations applied after construction
MaxOps == 2
\* migrations registered with the engine
MaxMigrations == 3
MaxStoredTasks == 2
MaxRawTasks == 1
MaxStoreOps == 2
\* focus areas and tasks of a matrix handed to the integrity checks
MaxCheckedItems == 2
\* the clock of the auto-save model runs from 0 to MaxTime
MaxTime == 5

-----------------------------------------------------------------------------
(* types: TaskStatus, TaskPriority *)

PENDING == "pending"
IN_PROGRESS == "in-progress"
COMPLETED == "completed"
TaskStatus == {PENDING, IN_PROGRESS, COMPLETED}

LOW == "low"
MEDIUM == "medium"
HIGH == "high"
TaskPriority == {LOW, MEDIUM, HIGH}

\* a key that an object literal does not carry (Partial<...>, optional field)
Absent == "<absent>"
\* completedDate === undefined
undefined == 0
\* an id that identifies no entity
MissingId == 0

\* HARADA_METHOD_LIMITS
MAX_FOCUS_AREAS == 8
MAX_TASKS_PER_AREA == 8
MAX_TOTAL_TASKS == 64

-----------------------------------------------------------------------------
(* Array helpers (Array.prototype.filter is SelectSeq) *)

\* Array.prototype.findIndex: first index whose element has the id, 0 for -1
findIndex(seq, id) ==
    IF \E i \in DOMAIN seq : seq[i].id = id
    THEN CHOOSE i \in DOMAIN seq :
            /\ seq[i].id = id
            /\ \A j \in 1..(i - 1) : seq[j].id # id
    ELSE 0

\* Array.prototype.some on ids
someId(seq, id) == \E i \in DOMAIN seq : seq[i].id = id

-----------------------------------------------------------------------------
(* factories.ts *)

defaultAreaTitles ==
    << "Physical Development", "Mental Preparation", "Skill Acquisition",
       "Strategic Planning", "Performance Execution", "Recovery & Maintenance",
       "Relationship Building", "Personal Growth" >>

\* String.prototype.toLowerCase on the strings the model uses
toLowerCase(s) ==
    CASE s = "Physical Development" -> "physical development"
      [] s = "Mental Preparation" -> "mental preparation"
      [] s = "Skill Acquisition" -> "skill acquisition"
      [] s = "Strategic Planning" -> "strategic planning"
      [] s = "Performance Execution" -> "performance execution"
      [] s = "Recovery & Maintenance" -> "recovery & maintenance"
      [] s = "Relationship Building" -> "relationship building"
      [] s = "Personal Growth" -> "personal growth"
      [] s = "New Area" -> "new area"
      [] OTHER -> s

createGoal(input, id, now) ==
    [id |-> id, title |-> input.title, description |-> input.description,
     createdDate |-> now]

createFocusArea(input, id) ==
    [id |-> id, title |-> input.title, description |-> input.description,
     goalId |-> input.goalId]

\* priority: input.priority || TaskPriority.MEDIUM; no completedDate is set
createTask(input, id) ==
    [id |-> id, title |-> input.title, description |-> input.description,
     areaId |-> input.areaId, status |-> input.status,
     priority |-> IF input.priority = Absent THEN MEDIUM ELSE input.priority,
     completedDate |-> undefined]

\* the 8 default areas, ids firstId .. firstId + 7
createFocusAreas(goalId, firstId) ==
    [i \in 1..Len(defaultAreaTitles) |->
        createFocusArea(
            [title |-> defaultAreaTitles[i],
             description |-> "Focus area for " \o toLowerCase(defaultAreaTitles[i]),
             goalId |-> goalId],
            firstId + i - 1)]

\* 8 pending tasks per area, area by area, ids firstId ..
createEmptyTaskMatrix(focusAreaIds, firstId) ==
    [k \in 1..(Len(focusAreaIds) * 8) |->
        LET a == ((k - 1) \div 8) + 1
            i == ((k - 1) % 8) + 1
        IN createTask(
            [title |-> "Task " \o ToString(i),
             description |-> "Task " \o ToString(i) \o " for focus area",
             areaId |-> focusAreaIds[a],
             status |-> PENDING,
             priority |-> MEDIUM],
            firstId + k - 1)]

createEmptyMatrix(goalInput, firstId, now) ==
    LET goal == createGoal(goalInput, firstId, now)
        focusAreas == createFocusAreas(goal.id, firstId + 1)
        focusAreaIds == [i \in DOMAIN focusAreas |-> focusAreas[i].id]
        tasks == createEmptyTaskMatrix(focusAreaIds, firstId + 1 + Len(focusAreas))
    IN [goal |-> goal, focusAreas |-> focusAreas, tasks |-> tasks]

-----------------------------------------------------------------------------
(* crud.ts: every operation returns a result [threw, value, argument]; a   *)
(* throwing call returns nothing, so value is the matrix the caller holds. *)
(* argument is the object passed as matrixData as the call leaves it: the  *)
(* operations write only into the copies they make ({...x}, [...xs], map,  *)
(* filter).                                                                *)

Returned(data, m) == [threw |-> FALSE, value |-> m, argument |-> data]
Thrown(data) == [threw |-> TRUE, value |-> data, argument |-> data]

\* { ...entity, ...updates } for the title / description keys
spread(old, new) == IF new = Absent THEN old ELSE new

updateGoal(data, goalId, updates) ==
    IF data.goal.id # goalId THEN Thrown(data)
    ELSE Returned(data, [data EXCEPT
            !.goal.title = spread(@, updates.title),
            !.goal.description = spread(@, updates.description)])

updateFocusArea(data, areaId, updates) ==
    LET areaIndex == findIndex(data.focusAreas, areaId)
    IN IF areaIndex = 0 THEN Thrown(data)
       ELSE Returned(data, [data EXCEPT
               !.focusAreas[areaIndex].title = spread(@, updates.title),
               !.focusAreas[areaIndex].description = spread(@, updates.description)])

addFocusArea(data, input, id) ==
    Returned(data, [data EXCEPT !.focusAreas = Append(@, createFocusArea(input, id))])

\* deleteFocusArea without the cascade to the area's tasks
deleteFocusArea_NoCascade(data, areaId) ==
    IF ~someId(data.focusAreas, areaId) THEN Thrown(data)
    ELSE LET keepArea(area) == area.id # areaId
         IN Returned(data, [data EXCEPT !.focusAreas = SelectSeq(@, keepArea)])

deleteFocusArea(data, areaId) ==
    IF ~someId(data.focusAreas, areaId) THEN Thrown(data)
    ELSE LET keepArea(area) == area.id # areaId
             keepTask(task) == task.areaId # areaId
         IN Returned(data, [data EXCEPT
                !.focusAreas = SelectSeq(@, keepArea),
                !.tasks = SelectSeq(@, keepTask)])

\* addTask without the check that the focus area exists
addTask_Unchecked(data, input, id) ==
    Returned(data, [data EXCEPT !.tasks = Append(@, createTask(input, id))])

addTask(data, input, id) ==
    IF ~someId(data.focusAreas, input.areaId) THEN Thrown(data)
    ELSE Returned(data, [data EXCEPT !.tasks = Append(@, createTask(input, id))])

\* updateTask that stamps a new completedDate on every change to COMPLETED
updateTask_AlwaysStamp(data, taskId, updates, now) ==
    LET taskIndex == findIndex(data.tasks, taskId)
    IN IF taskIndex = 0 THEN Thrown(data)
       ELSE
         LET existingTask == data.tasks[taskIndex]
             merged == [existingTask EXCEPT
                          !.title = spread(@, updates.title),
                          !.description = spread(@, updates.description),
                          !.status = spread(@, updates.status)]
             stamped ==
                 IF updates.status = COMPLETED
                 THEN [merged EXCEPT !.completedDate = now]
                 ELSE merged
             updatedTask ==
                 IF existingTask.status = COMPLETED /\ updates.status # COMPLETED
                 THEN [stamped EXCEPT !.completedDate = undefined]
                 ELSE stamped
         IN Returned(data, [data EXCEPT !.tasks[taskIndex] = updatedTask])

\* updates: [title, description, status], each Absent when the key is not given
updateTask(data, taskId, updates, now) ==
    LET taskIndex == findIndex(data.tasks, taskId)
    IN IF taskIndex = 0 THEN Thrown(data)
       ELSE
         LET existingTask == data.tasks[taskIndex]
             merged == [existingTask EXCEPT
                          !.title = spread(@, updates.title),
                          !.description = spread(@, updates.description),
                          !.status = spread(@, updates.status)]
             stamped ==
                 IF updates.status = COMPLETED /\ existingTask.completedDate = undefined
                 THEN [merged EXCEPT !.completedDate = now]
                 ELSE merged
             updatedTask ==
                 IF existingTask.status = COMPLETED /\ updates.status # COMPLETED
                 THEN [stamped EXCEPT !.completedDate = undefined]
                 ELSE stamped
         IN Returned(data, [data EXCEPT !.tasks[taskIndex] = updatedTask])

\* getTasksWithAreas: every task with its focus area; throws on a task whose
\* areaId is the id of no focus area
getTasksWithAreas(data) ==
    LET focusArea(task) ==
            data.focusAreas[findIndex(data.focusAreas, task.areaId)]
    IN IF \E i \in DOMAIN data.tasks : ~someId(data.focusAreas, data.tasks[i].areaId)
       THEN [threw |-> TRUE, value |-> <<>>]
       ELSE [threw |-> FALSE,
             value |-> [i \in DOMAIN data.tasks |->
                          [task |-> data.tasks[i],
                           focusArea |-> focusArea(data.tasks[i])]]]

updateTaskStatus(data, taskId, status, now) ==
    updateTask(data, taskId,
               [title |-> Absent, description |-> Absent, status |-> status], now)

\* deleteTask that splices the task out of the array it was given
deleteTask_InPlace(data, taskId) ==
    IF ~someId(data.tasks, taskId) THEN Thrown(data)
    ELSE LET keepTask(task) == task.id # taskId
             spliced == [data EXCEPT !.tasks = SelectSeq(@, keepTask)]
         IN [threw |-> FALSE, value |-> spliced, argument |-> spliced]

deleteTask(data, taskId) ==
    IF ~someId(data.tasks, taskId) THEN Thrown(data)
    ELSE LET keepTask(task) == task.id # taskId
         IN Returned(data, [data EXCEPT !.tasks = SelectSeq(@, keepTask)])

-----------------------------------------------------------------------------
(* migrations.ts: versions.  A version string is modelled by the numbers   *)
(* between its dots ("1.0" is <<1, 0>>), so that equality of strings and   *)
(* equality of parsed versions differ as they do in the code.              *)

STORAGE_VERSION == <<1, 0, 0>>

\* !storedData.version: the envelope carries no version
NoVersion == <<>>

\* VersionUtils.parse: parts[i] || 0
parse(version) ==
    [major |-> IF Len(version) >= 1 THEN version[1] ELSE 0,
     minor |-> IF Len(version) >= 2 THEN version[2] ELSE 0,
     patch |-> IF Len(version) >= 3 THEN version[3] ELSE 0]

\* VersionUtils.compare with the component order minor, major, patch
compare_MinorFirst(v1, v2) ==
    LET p1 == parse(v1)
        p2 == parse(v2)
    IN IF p1.minor # p2.minor THEN (IF p1.minor > p2.minor THEN 1 ELSE -1)
       ELSE IF p1.major # p2.major THEN (IF p1.major > p2.major THEN 1 ELSE -1)
       ELSE IF p1.patch # p2.patch THEN (IF p1.patch > p2.patch THEN 1 ELSE -1)
       ELSE 0

\* VersionUtils.compare
compare(v1, v2) ==
    LET p1 == parse(v1)
        p2 == parse(v2)
    IN IF p1.major # p2.major THEN (IF p1.major > p2.major THEN 1 ELSE -1)
       ELSE IF p1.minor # p2.minor THEN (IF p1.minor > p2.minor THEN 1 ELSE -1)
       ELSE IF p1.patch # p2.patch THEN (IF p1.patch > p2.patch THEN 1 ELSE -1)
       ELSE 0

isLessThan(v1, v2) == compare(v1, v2) < 0
isGreaterThan(v1, v2) == compare(v1, v2) > 0
isEqual(v1, v2) == compare(v1, v2) = 0

\* getNextVersion that never rolls the patch number over
getNextVersion_NoRollover(version) ==
    LET parsed == parse(version)
    IN <<parsed.major, parsed.minor, parsed.patch + 1>>

\* MigrationEngine.getNextVersion
getNextVersion(version) ==
    LET parsed == parse(version)
    IN IF parsed.patch < 999 THEN <<parsed.major, parsed.minor, parsed.patch + 1>>
       ELSE IF parsed.minor < 999 THEN <<parsed.major, parsed.minor + 1, 0>>
       ELSE <<parsed.major + 1, 0, 0>>

\* the registry key `${fromVersion}->${toVersion}`
MigrationKey(fromVersion, toVersion) == <<fromVersion, toVersion>>

\* Map.get(key): the migration registered under the key
registered(registry, key) ==
    {m \in registry : MigrationKey(m.fromVersion, m.toVersion) = key}

\* MigrationEngine.register: Map.set(key, migration) replaces the key's entry
register(registry, migration) ==
    (registry \ registered(registry,
                           MigrationKey(migration.fromVersion, migration.toVersion)))
        \cup {migration}

-----------------------------------------------------------------------------
(* migrations.ts: transformations.  The payload a transformation works on  *)
(* is abstracted to what the transformations of the model read and write:  *)
(* whether data.tasks is an array, the priority of each task (Absent when   *)
(* the task has none) and the number of schema rewrites applied.           *)

\* exampleMigration.migrate: throws on a payload without a tasks array, else
\* assigns data.tasks on the object it was given and returns that object
exampleMigrate(data) ==
    IF ~data.tasksIsArray
    THEN [threw |-> TRUE, data |-> data, sameObject |-> TRUE]
    ELSE [threw |-> FALSE,
          data |-> [data EXCEPT !.priorities =
                        [i \in DOMAIN @ |-> IF @[i] = Absent THEN MEDIUM ELSE @[i]]],
          sameObject |-> TRUE]

\* a transformation that builds and returns a new payload object
copyingMigrate(data) ==
    [threw |-> FALSE, data |-> [data EXCEPT !.rewrites = @ + 1],
     sameObject |-> FALSE]

\* a transformation that throws
throwingMigrate(data) ==
    [threw |-> TRUE, data |-> data, sameObject |-> TRUE]

\* migration.migrate(data) for the kinds of transformation of the model
runMigrate(migration, data) ==
    CASE migration.kind = "example" -> exampleMigrate(data)
      [] migration.kind = "copying" -> copyingMigrate(data)
      [] migration.kind = "throwing" -> throwingMigrate(data)

\* an error string, with the version strings that appear in it
ErrorMsg(text, versions) == [text |-> text, versions |-> versions]

\* MigrationEngine.getMigrationPath: [threw, path, error]
RECURSIVE getMigrationPath(_, _, _, _)
getMigrationPath(registry, currentVersion, toVersion, path) ==
    IF ~isLessThan(currentVersion, toVersion)
    THEN [threw |-> FALSE, path |-> path, error |-> ErrorMsg("", <<>>)]
    ELSE LET key == MigrationKey(currentVersion, getNextVersion(currentVersion))
             found == registered(registry, key)
         IN IF found = {}
            THEN [threw |-> TRUE, path |-> path,
                  error |-> ErrorMsg("Migration failed: Error: No migration found from _ to next version",
                                     <<currentVersion>>)]
            ELSE LET migration == CHOOSE m \in found : TRUE
                 IN getMigrationPath(registry, migration.toVersion, toVersion,
                                     Append(path, migration))

\* the for loop of migrate: migratedData refers to the envelope's own data
\* object until a transformation returns another object (aliased), so a
\* transformation that assigns to its argument changes the envelope's data
RECURSIVE applyMigrations(_, _, _, _, _)
applyMigrations(path, migratedData, envelopeData, aliased, applied) ==
    IF path = <<>>
    THEN [failed |-> FALSE, migratedData |-> migratedData,
          envelopeData |-> envelopeData, applied |-> applied,
          error |-> ErrorMsg("", <<>>)]
    ELSE LET migration == Head(path)
             out == runMigrate(migration, migratedData)
             nowAliased == aliased /\ out.sameObject
             newEnvelopeData == IF aliased /\ out.sameObject THEN out.data
                                ELSE envelopeData
         IN IF out.threw
            THEN [failed |-> TRUE, migratedData |-> migratedData,
                  envelopeData |-> newEnvelopeData, applied |-> applied,
                  error |-> ErrorMsg("Migration _->_ failed",
                                     <<migration.fromVersion, migration.toVersion>>)]
            ELSE applyMigrations(Tail(path), out.data, newEnvelopeData,
                                 nowAliased, Append(applied, migration))

MigrationResult(success, applied, errors, migratedFrom, migratedTo) ==
    [success |-> success, appliedMigrations |-> applied, errors |-> errors,
     migratedFrom |-> migratedFrom, migratedTo |-> migratedTo]

\* migrate without the check for a version newer than STORAGE_VERSION: the
\* empty path is applied and the envelope is stamped with STORAGE_VERSION
migrate_NoNewerCheck(registry, envelope) ==
    LET currentVersion == envelope.version
        found == getMigrationPath(registry, currentVersion, STORAGE_VERSION, <<>>)
        run == applyMigrations(found.path, envelope.data, envelope.data, TRUE, <<>>)
    IN IF isEqual(currentVersion, STORAGE_VERSION)
       THEN [result |-> MigrationResult(TRUE, <<>>, <<>>, NoVersion, NoVersion),
             storedData |-> envelope]
       ELSE IF found.threw
       THEN [result |-> MigrationResult(FALSE, <<>>, <<found.error>>,
                                        NoVersion, NoVersion),
             storedData |-> envelope]
       ELSE IF run.failed
       THEN [result |-> MigrationResult(FALSE, run.applied, <<run.error>>,
                                        NoVersion, NoVersion),
             storedData |-> [envelope EXCEPT !.data = run.envelopeData]]
       ELSE [result |-> MigrationResult(TRUE, run.applied, <<>>,
                                        currentVersion, STORAGE_VERSION),
             storedData |-> [version |-> STORAGE_VERSION, data |-> run.migratedData,
                             lastSaved |-> envelope.lastSaved]]

\* MigrationEngine.migrate: the MigrationResult and the envelope after the call
migrate(registry, envelope) ==
    LET currentVersion == envelope.version
    IN IF isEqual(currentVersion, STORAGE_VERSION)
       THEN [result |-> MigrationResult(TRUE, <<>>, <<>>, NoVersion, NoVersion),
             storedData |-> envelope]
       ELSE IF isGreaterThan(currentVersion, STORAGE_VERSION)
       THEN [result |-> MigrationResult(FALSE, <<>>,
                            <<ErrorMsg("Data version _ is newer than supported version _",
                                       <<currentVersion, STORAGE_VERSION>>)>>,
                            NoVersion, NoVersion),
             storedData |-> envelope]
       ELSE
         LET found == getMigrationPath(registry, currentVersion, STORAGE_VERSION, <<>>)
         IN IF found.threw
            THEN [result |-> MigrationResult(FALSE, <<>>, <<found.error>>,
                                             NoVersion, NoVersion),
                  storedData |-> envelope]
            ELSE
              LET run == applyMigrations(found.path, envelope.data, envelope.data,
                                         TRUE, <<>>)
              IN IF run.failed
                 THEN [result |-> MigrationResult(FALSE, run.applied, <<run.error>>,
                                                  NoVersion, NoVersion),
                       storedData |-> [envelope EXCEPT !.data = run.envelopeData]]
                 ELSE [result |-> MigrationResult(TRUE, run.applied, <<>>,
                                                  currentVersion, STORAGE_VERSION),
                       storedData |-> [version |-> STORAGE_VERSION,
                                       data |-> run.migratedData,
                                       lastSaved |-> envelope.lastSaved]]

\* needsMigration
needsMigration(envelope) == isLessThan(envelope.version, STORAGE_VERSION)

-----------------------------------------------------------------------------
(* VersionUtils applied to two versions (VersionSpec) *)

\* the numbers a version is made of, and versions with fewer than three parts
ComponentInputs == {0, 1, 9, 10}

ComparedVersionInputs ==
    {<<a, b, c>> : a \in ComponentInputs, b \in ComponentInputs, c \in ComponentInputs}
    \cup {<<1>>, <<1, 0>>}

NotCompared == [called |-> FALSE]

NotValidated == [called |-> FALSE]

VersionIdle ==
    /\ compared = [v1 |-> STORAGE_VERSION, v2 |-> STORAGE_VERSION,
                   result |-> NotCompared]
    /\ validated = NotValidated

-----------------------------------------------------------------------------
(* Inputs of the migration engine *)

NoResult == [called |-> FALSE]

VersionInputs ==
    { <<0, 999, 997>>, <<0, 999, 998>>, <<0, 999, 999>>, <<0, 998, 999>>,
      <<1, 0, 0>>, <<1, 0>>, <<1, 0, 1>>, <<1, 1, 0>>, <<2, 0, 0>> }

PayloadInputs ==
    { [tasksIsArray |-> TRUE, priorities |-> <<Absent, HIGH>>, rewrites |-> 0],
      [tasksIsArray |-> TRUE, priorities |-> <<LOW>>, rewrites |-> 0],
      [tasksIsArray |-> FALSE, priorities |-> <<>>, rewrites |-> 0] }

\* the links a migration may be registered for: the steps up to
\* STORAGE_VERSION, one past it, one whose toVersion is written "1.0"
LinkInputs ==
    { <<<<0, 999, 997>>, <<0, 999, 998>>>>, <<<<0, 999, 998>>, <<0, 999, 999>>>>,
      <<<<0, 999, 999>>, <<1, 0, 0>>>>, <<<<0, 999, 999>>, <<1, 0>>>>,
      <<<<0, 998, 999>>, <<0, 999, 0>>>>, <<<<1, 0, 0>>, <<1, 0, 1>>>> }

MigrationKinds == {"example", "copying", "throwing"}

MigIdle ==
    /\ migrations = {}
    /\ storedData = [version |-> STORAGE_VERSION,
                     data |-> [tasksIsArray |-> TRUE, priorities |-> <<>>, rewrites |-> 0],
                     lastSaved |-> 1]
    /\ givenData = storedData
    /\ migResult = NoResult

-----------------------------------------------------------------------------
(* storage.ts: JavaScript values as they appear in an envelope             *)

\* a date-valued field: a Date object ("Date"), the string Date.toISOString
\* gives ("iso"), a string that is no date ("text"), the empty string
\* ("empty") or no value at all ("absent")
DateObj(t) == [kind |-> "Date", t |-> t]
IsoString(t) == [kind |-> "iso", t |-> t]
TextString == [kind |-> "text", t |-> 0]
EmptyString == [kind |-> "empty", t |-> 0]
NoDate == [kind |-> "absent", t |-> 0]

\* isValidDate(new Date(x)): a Date object or an ISO string gives a valid date
parsesAsDate(x) == x.kind \in {"Date", "iso"}

\* parseDate: the Date, or StorageCorruptionError when new Date(x) is invalid
parseDate(x) ==
    IF parsesAsDate(x)
    THEN [threw |-> FALSE, value |-> DateObj(x.t)]
    ELSE [threw |-> TRUE, value |-> NoDate]

\* a value used as a condition: absent values and the empty string are falsy
truthy(x) == x.kind \notin {"absent", "empty"}

\* String(x || ''): the empty string for a missing value
StringOr(x) == IF x = Absent THEN "" ELSE x

\* error names
NoError == "none"
StorageCorruptionError == "StorageCorruptionError"
StorageError == "StorageError"
StorageQuotaExceededError == "StorageQuotaExceededError"
PlainError == "Error"
TypeError == "TypeError"
SyntaxError == "SyntaxError"

NoMatrix == [none |-> TRUE]

Ok(value) == [error |-> NoError, value |-> value]
Raise(error) == [error |-> error, value |-> NoMatrix]

\* the Task built from a stored task; priorityKept tells whether the copy of
\* validateStoredData at hand copies priority (defaulting to MEDIUM)
parsedTask(task, priorityKept) ==
    [id |-> StringOr(task.id), title |-> StringOr(task.title),
     description |-> StringOr(task.description), areaId |-> StringOr(task.areaId),
     status |-> task.status,
     priority |-> IF ~priorityKept THEN Absent
                  ELSE IF task.priority = Absent THEN MEDIUM ELSE task.priority,
     completedDate |-> IF truthy(task.completedDate)
                       THEN parseDate(task.completedDate).value
                       ELSE NoDate]

\* a stored task that makes validateStoredData throw
taskThrows(task) ==
    \/ ~task.isObject
    \/ task.status \notin TaskStatus
    \/ truthy(task.completedDate) /\ parseDate(task.completedDate).threw

parsedArea(area) ==
    [id |-> StringOr(area.id), title |-> StringOr(area.title),
     description |-> StringOr(area.description), goalId |-> StringOr(area.goalId)]

\* validateStoredData, in the order of its checks
validateStoredDataWith(data, priorityKept) ==
    IF ~data.isObject THEN Raise(StorageCorruptionError)
    ELSE IF ~data.goal.isObject THEN Raise(StorageCorruptionError)
    ELSE IF parseDate(data.goal.createdDate).threw THEN Raise(StorageCorruptionError)
    ELSE IF ~data.focusAreas.isArray THEN Raise(StorageCorruptionError)
    ELSE IF \E i \in DOMAIN data.focusAreas.items : ~data.focusAreas.items[i].isObject
         THEN Raise(StorageCorruptionError)
    ELSE IF ~data.tasks.isArray THEN Raise(StorageCorruptionError)
    ELSE IF \E i \in DOMAIN data.tasks.items : taskThrows(data.tasks.items[i])
         THEN Raise(StorageCorruptionError)
    ELSE Ok([goal |-> [id |-> StringOr(data.goal.id),
                       title |-> StringOr(data.goal.title),
                       description |-> StringOr(data.goal.description),
                       createdDate |-> parseDate(data.goal.createdDate).value],
             focusAreas |-> [i \in DOMAIN data.focusAreas.items |->
                                parsedArea(data.focusAreas.items[i])],
             tasks |-> [i \in DOMAIN data.tasks.items |->
                           parsedTask(data.tasks.items[i], priorityKept)]])

\* validateStoredData of the storage module with compression and backup
validateStoredData(data) == validateStoredDataWith(data, TRUE)

\* validateStoredData of utils/storage.ts: parsedTask has no priority
utils_validateStoredData(data) == validateStoredDataWith(data, FALSE)

\* a MatrixData seen as the untyped value validateStoredData reads
asValue(matrix) ==
    [isObject |-> TRUE,
     goal |-> [isObject |-> TRUE, id |-> matrix.goal.id, title |-> matrix.goal.title,
               description |-> matrix.goal.description,
               createdDate |-> matrix.goal.createdDate],
     focusAreas |->
        [isArray |-> TRUE,
         items |-> [i \in DOMAIN matrix.focusAreas |->
                      [isObject |-> TRUE, id |-> matrix.focusAreas[i].id,
                       title |-> matrix.focusAreas[i].title,
                       description |-> matrix.focusAreas[i].description,
                       goalId |-> matrix.focusAreas[i].goalId]]],
     tasks |->
        [isArray |-> TRUE,
         items |-> [i \in DOMAIN matrix.tasks |->
                      [isObject |-> TRUE, id |-> matrix.tasks[i].id,
                       title |-> matrix.tasks[i].title,
                       description |-> matrix.tasks[i].description,
                       areaId |-> matrix.tasks[i].areaId,
                       status |-> matrix.tasks[i].status,
                       priority |-> matrix.tasks[i].priority,
                       completedDate |-> matrix.tasks[i].completedDate]]]]

\* serializeMatrixData: the envelope around the matrix itself
serializeMatrixData(matrix, now) ==
    [isObject |-> TRUE, version |-> STORAGE_VERSION, data |-> asValue(matrix),
     lastSaved |-> IsoString(now)]

\* Date.prototype.toJSON inside JSON.stringify: a Date becomes its ISO string
toJSON(x) == IF x.kind = "Date" THEN IsoString(x.t) ELSE x

\* the value JSON.stringify writes for the data of an envelope
stringifyData(data) ==
    IF ~data.isObject THEN data
    ELSE [data EXCEPT
            !.goal.createdDate = toJSON(@),
            !.tasks.items = [i \in DOMAIN @ |->
                                [@[i] EXCEPT !.completedDate = toJSON(@)]]]

\* a stored string: JSON text of a value ("json"), text that is no JSON
\* ("text"), the empty string ("empty"), or no item ("none"); base64 tells
\* that the string is btoa(encodeURIComponent(text))
NoEnvelope == [isObject |-> FALSE]
NoItem == [kind |-> "none", base64 |-> FALSE, value |-> NoEnvelope]
EmptyItem == [kind |-> "empty", base64 |-> FALSE, value |-> NoEnvelope]
NotJson == [kind |-> "text", base64 |-> FALSE, value |-> NoEnvelope]
JsonText(value) == [kind |-> "json", base64 |-> FALSE, value |-> value]

\* JSON.stringify of an envelope
stringify(envelope) ==
    JsonText([envelope EXCEPT !.data = stringifyData(@)])

\* JSON.parse: SyntaxError on text that is no JSON, base64 text included
parseJson(item) ==
    IF item.kind # "json" \/ item.base64
    THEN [error |-> SyntaxError, value |-> NoEnvelope]
    ELSE [error |-> NoError, value |-> item.value]

\* compressData: btoa(encodeURIComponent(data))
compressData(item) == [item EXCEPT !.base64 = TRUE]

\* decompressData: decodeURIComponent(atob(data)); the argument itself when
\* atob throws, as it does on the braces and quotes of JSON text
decompressData(item) == [item EXCEPT !.base64 = FALSE]

\* createBackwardCompatibilityLayer throws a plain Error
compatibilityThrows(data) ==
    \/ ~data.isObject
    \/ ~data.goal.isObject
    \/ ~data.focusAreas.isArray
    \/ ~data.tasks.isArray

\* deserializeMatrixData with the given copy of validateStoredData
deserializeWith(registry, stored, priorityKept) ==
    IF ~stored.isObject THEN Raise(TypeError)
    ELSE IF stored.version = NoVersion THEN Raise(StorageCorruptionError)
    ELSE
      LET migrated == IF needsMigration(stored)
                      THEN migrate(registry, stored)
                      ELSE [result |-> MigrationResult(TRUE, <<>>, <<>>,
                                                       NoVersion, NoVersion),
                            storedData |-> stored]
      IN IF ~migrated.result.success THEN Raise(PlainError)
         ELSE IF compatibilityThrows(migrated.storedData.data) THEN Raise(PlainError)
         ELSE validateStoredDataWith(migrated.storedData.data, priorityKept)

deserializeMatrixData(registry, stored) ==
    deserializeWith(registry, stored, TRUE)

utils_deserializeMatrixData(registry, stored) ==
    deserializeWith(registry, stored, FALSE)

\* what loadMatrixData returns for "no data stored yet"
Null == [null |-> TRUE]

\* loadMatrixData: null, a MatrixData, or the error raised
loadMatrixData(store, registry) ==
    LET processed == IF store.compressed = "true"
                     THEN decompressData(store.matrixData)
                     ELSE store.matrixData
        parsed == parseJson(processed)
        out == deserializeMatrixData(registry, parsed.value)
    IN IF store.matrixData.kind \in {"none", "empty"} THEN Ok(Null)
       ELSE IF parsed.error = SyntaxError THEN Raise(StorageCorruptionError)
       ELSE IF out.error \in {NoError, StorageCorruptionError, StorageError} THEN out
       ELSE Raise(StorageError)

\* length of btoa(encodeURIComponent(text)) for a text of the given length
\* of which `escaped` characters are percent-encoded
compressedLength(length, escaped) == 4 * ((length + 2 * escaped + 2) \div 3)

NoSave == [called |-> FALSE]

\* saveMatrixData that checks the ceiling after writing the payload
saveMatrixData_WriteFirst(store, matrix, now, length, escaped, failAt) ==
    LET jsonString == stringify(serializeMatrixData(matrix, now))
    IN IF length > 4 * 1024 * 1024
       THEN [store |-> [store EXCEPT !.matrixData = jsonString],
             error |-> StorageQuotaExceededError, storedLength |-> length]
       ELSE [store |-> [store EXCEPT !.matrixData = jsonString,
                                     !.version = STORAGE_VERSION,
                                     !.lastSaved = IsoString(now),
                                     !.compressed = "false"],
             error |-> NoError, storedLength |-> length]

\* saveMatrixData that records 'true' for every payload above the threshold
saveMatrixData_FlagBySize(store, matrix, now, length, escaped, failAt) ==
    LET jsonString == stringify(serializeMatrixData(matrix, now))
    IN IF length > 4 * 1024 * 1024
       THEN [store |-> store, error |-> StorageQuotaExceededError,
             storedLength |-> length]
       ELSE [store |-> [store EXCEPT !.matrixData = jsonString,
                                     !.version = STORAGE_VERSION,
                                     !.lastSaved = IsoString(now),
                                     !.compressed = IF length > 1024 * 1024
                                                    THEN "true" ELSE "false"],
             error |-> NoError, storedLength |-> length]

\* saveMatrixData: the store after the call, the error raised, if any, and
\* the length of the string handed to setItem. length is the length of the
\* JSON text, failAt the setItem call (1..4) at which the browser reports its
\* quota exceeded, 0 when none does.
saveMatrixData(store, matrix, now, length, escaped, failAt) ==
    LET serializedData == serializeMatrixData(matrix, now)
        jsonString == stringify(serializedData)
        compressed == /\ length > 1024 * 1024
                      /\ 10 * compressedLength(length, escaped) < 9 * length
        finalString == IF compressed THEN compressData(jsonString) ELSE jsonString
        finalLength == IF compressed THEN compressedLength(length, escaped) ELSE length
        written == [store EXCEPT
                      !.matrixData = IF failAt = 0 \/ failAt > 1 THEN finalString ELSE @,
                      !.version = IF failAt = 0 \/ failAt > 2 THEN STORAGE_VERSION ELSE @,
                      !.lastSaved = IF failAt = 0 \/ failAt > 3
                                    THEN serializedData.lastSaved ELSE @,
                      !.compressed = IF failAt = 0
                                     THEN (IF compressed THEN "true" ELSE "false")
                                     ELSE @]
    IN IF finalLength > 4 * 1024 * 1024
       THEN [store |-> store, error |-> StorageQuotaExceededError,
             storedLength |-> finalLength]
       ELSE IF failAt # 0
       THEN [store |-> written, error |-> StorageQuotaExceededError,
             storedLength |-> finalLength]
       ELSE [store |-> written, error |-> NoError, storedLength |-> finalLength]

\* clearMatrixData: the four keys of the primary payload are removed
clearMatrixData(store) ==
    [store EXCEPT !.matrixData = NoItem, !.version = NoVersion,
                  !.lastSaved = NoDate, !.compressed = Absent]

\* hasMatrixData: getItem(MATRIX_DATA) !== null
hasMatrixData(store) == store.matrixData.kind # "none"

\* createBackup that lets the failure of setItem through
createBackup_Rethrow(store, matrix, now, failAt) ==
    LET jsonString == stringify(serializeMatrixData(matrix, now))
    IN [store |-> [store EXCEPT
                     !.backupData = IF failAt = 0 \/ failAt > 1 THEN jsonString ELSE @,
                     !.backupTimestamp = IF failAt = 0 \/ failAt > 2
                                         THEN IsoString(now) ELSE @,
                     !.backupVersion = IF failAt = 0 THEN STORAGE_VERSION ELSE @],
        error |-> IF failAt = 0 THEN NoError ELSE StorageError]

\* createBackup: the store after the call; failAt is the setItem call (1..3)
\* that throws, 0 when none does. The error is caught and logged.
createBackup(store, matrix, now, failAt) ==
    LET jsonString == stringify(serializeMatrixData(matrix, now))
    IN [store |-> [store EXCEPT
                     !.backupData = IF failAt = 0 \/ failAt > 1 THEN jsonString ELSE @,
                     !.backupTimestamp = IF failAt = 0 \/ failAt > 2
                                         THEN IsoString(now) ELSE @,
                     !.backupVersion = IF failAt = 0 THEN STORAGE_VERSION ELSE @],
        error |-> NoError]

\* restoreFromBackup: null when there is no backup, the restored matrix, or
\* null when anything was thrown on the way
restoreFromBackup(store, registry) ==
    LET parsed == parseJson(store.backupData)
        out == deserializeMatrixData(registry, parsed.value)
    IN IF store.backupData.kind \in {"none", "empty"} THEN Ok(Null)
       ELSE IF parsed.error # NoError THEN Ok(Null)
       ELSE IF out.error # NoError THEN Ok(Null)
       ELSE out

-----------------------------------------------------------------------------
(* Inputs of the storage functions *)

\* a valid MatrixData holds at most MaxStoredTasks tasks here
stored_goal == [id |-> "goal-1", title |-> "Goal", description |-> "",
                createdDate |-> DateObj(1)]
stored_area == [id |-> "area-1", title |-> "Area", description |-> "",
                goalId |-> "goal-1"]

TaskShapes ==
    {[status |-> st, priority |-> pr,
      completedDate |-> IF st = COMPLETED THEN DateObj(2) ELSE NoDate] :
        st \in {PENDING, COMPLETED}, pr \in TaskPriority}

MatrixOf(shapes) ==
    [goal |-> stored_goal,
     focusAreas |-> <<stored_area>>,
     tasks |-> [i \in DOMAIN shapes |->
                  [id |-> "task-" \o ToString(i), title |-> "Task", description |-> "",
                   areaId |-> "area-1", status |-> shapes[i].status,
                   priority |-> shapes[i].priority,
                   completedDate |-> shapes[i].completedDate]]]

MatrixInputs ==
    {MatrixOf(shapes) : shapes \in UNION {[1..n -> TaskShapes] : n \in 0..MaxStoredTasks}}

\* what another writer may have left under the primary key
StoredTaskInputs ==
    {[isObject |-> TRUE, id |-> "task-1", title |-> "Task", description |-> "",
      areaId |-> "area-1", status |-> st, priority |-> HIGH, completedDate |-> cd] :
        st \in {PENDING, COMPLETED, "done"},
        cd \in {NoDate, EmptyString, IsoString(2), TextString}}
    \cup
    {[isObject |-> TRUE, id |-> Absent, title |-> "Task", description |-> "",
      areaId |-> "area-1", status |-> PENDING, priority |-> Absent,
      completedDate |-> NoDate],
     [isObject |-> FALSE, id |-> Absent, title |-> Absent, description |-> Absent,
      areaId |-> Absent, status |-> Absent, priority |-> Absent,
      completedDate |-> NoDate]}

StoredGoalInputs ==
    {[isObject |-> TRUE, id |-> "goal-1", title |-> "Goal", description |-> "",
      createdDate |-> cd] : cd \in {IsoString(1), TextString, NoDate}}
    \cup
    {[isObject |-> FALSE, id |-> Absent, title |-> Absent, description |-> Absent,
      createdDate |-> NoDate]}

StoredAreasInputs ==
    {[isArray |-> FALSE, items |-> <<>>],
     [isArray |-> TRUE, items |-> <<[isObject |-> TRUE, id |-> "area-1",
                                     title |-> "Area", description |-> "",
                                     goalId |-> "goal-1"]>>]}

StoredTasksInputs ==
    {[isArray |-> FALSE, items |-> <<>>]}
    \cup
    {[isArray |-> TRUE, items |-> items] :
        items \in UNION {[1..n -> StoredTaskInputs] : n \in 0..MaxRawTasks}}

NoData ==
    [isObject |-> FALSE,
     goal |-> [isObject |-> FALSE, id |-> Absent, title |-> Absent,
               description |-> Absent, createdDate |-> NoDate],
     focusAreas |-> [isArray |-> FALSE, items |-> <<>>],
     tasks |-> [isArray |-> FALSE, items |-> <<>>]]

StoredDataInputs ==
    {NoData}
    \cup
    {[isObject |-> TRUE, goal |-> g, focusAreas |-> a, tasks |-> t] :
        g \in StoredGoalInputs, a \in StoredAreasInputs, t \in StoredTasksInputs}

StoredVersionInputs == {NoVersion, <<0, 9, 0>>, <<1, 0, 0>>, <<2, 0, 0>>}

EnvelopeInputs ==
    {[isObject |-> TRUE, version |-> v, data |-> d, lastSaved |-> IsoString(1)] :
        v \in StoredVersionInputs, d \in StoredDataInputs}

ItemInputs ==
    {NotJson, EmptyItem, JsonText(NoEnvelope)}
    \cup {JsonText(e) : e \in EnvelopeInputs}
    \cup {compressData(JsonText(e)) : e \in EnvelopeInputs}

\* what another writer, or damage, may have left under the backup key
WellFormedData ==
    [isObject |-> TRUE,
     goal |-> [isObject |-> TRUE, id |-> "goal-1", title |-> "Goal",
               description |-> "", createdDate |-> IsoString(1)],
     focusAreas |-> [isArray |-> TRUE,
                     items |-> <<[isObject |-> TRUE, id |-> "area-1", title |-> "Area",
                                  description |-> "", goalId |-> "goal-1"]>>],
     tasks |-> [isArray |-> TRUE, items |-> <<>>]]

BackupItemInputs ==
    {NotJson, EmptyItem, JsonText(NoEnvelope)}
    \cup
    {JsonText([isObject |-> TRUE, version |-> v, data |-> d,
               lastSaved |-> IsoString(1)]) :
        v \in {NoVersion, <<0, 9, 0>>, <<1, 0, 0>>},
        d \in {NoData, WellFormedData,
               [WellFormedData EXCEPT !.goal.createdDate = TextString]}}

LengthInputs == {1000, 1024 * 1024 + 1, 4 * 1024 * 1024 + 1}
EscapedInputs == {2, 1000}

NoLoad == [called |-> FALSE]
NoBackup == [called |-> FALSE]
NoRestore == [called |-> FALSE]
NoRoundTrip == [called |-> FALSE]

StoreIdle ==
    /\ localStorage = [matrixData |-> NoItem, version |-> NoVersion,
                       lastSaved |-> NoDate, compressed |-> Absent,
                       backupData |-> NoItem, backupTimestamp |-> NoDate,
                       backupVersion |-> NoVersion]
    /\ storeOp = [name |-> "none", count |-> 0]
    /\ backupResult = NoBackup
    /\ restoreResult = NoRestore
    /\ saveResult = NoSave
    /\ loadResult = NoLoad
    /\ roundTrip = NoRoundTrip

-----------------------------------------------------------------------------
(* validation.ts: addition guards *)

validateFocusAreaAddition(data) ==
    LET errors ==
            IF Len(data.focusAreas) >= MAX_FOCUS_AREAS
            THEN <<"Cannot add more than 8 focus areas (Harada Method limit)">>
            ELSE <<>>
    IN [isValid |-> errors = <<>>, errors |-> errors]

\* validateTaskAddition with > where the code has >=
validateTaskAddition_OffByOne(data, areaId) ==
    LET inArea(task) == task.areaId = areaId
        tasksInArea == Len(SelectSeq(data.tasks, inArea))
        totalTasks == Len(data.tasks)
        errors ==
            (IF tasksInArea > MAX_TASKS_PER_AREA
             THEN <<"Cannot add more than 8 tasks per focus area (Harada Method limit)">>
             ELSE <<>>)
            \o
            (IF totalTasks > MAX_TOTAL_TASKS
             THEN <<"Cannot add more than 64 total tasks (Harada Method limit)">>
             ELSE <<>>)
    IN [isValid |-> errors = <<>>, errors |-> errors]

validateTaskAddition(data, areaId) ==
    LET inArea(task) == task.areaId = areaId
        tasksInArea == Len(SelectSeq(data.tasks, inArea))
        totalTasks == Len(data.tasks)
        errors ==
            (IF tasksInArea >= MAX_TASKS_PER_AREA
             THEN <<"Cannot add more than 8 tasks per focus area (Harada Method limit)">>
             ELSE <<>>)
            \o
            (IF totalTasks >= MAX_TOTAL_TASKS
             THEN <<"Cannot add more than 64 total tasks (Harada Method limit)">>
             ELSE <<>>)
    IN [isValid |-> errors = <<>>, errors |-> errors]

-----------------------------------------------------------------------------
(* App: the task-editor save handler.  taskData is what TaskEditor hands   *)
(* to onSave: title, description, status, priority, areaId.  editingId is  *)
(* the id of the task being edited, MissingId when a new task is created.  *)

handleSaveTask(prevMatrix, editingId, taskData, id, now) ==
    IF editingId # MissingId
    THEN [prevMatrix EXCEPT !.tasks =
            [i \in DOMAIN @ |->
                IF @[i].id = editingId
                THEN [id |-> @[i].id,
                      title |-> taskData.title,
                      description |-> taskData.description,
                      status |-> taskData.status,
                      priority |-> taskData.priority,
                      areaId |-> taskData.areaId,
                      completedDate |->
                          IF taskData.status = COMPLETED /\ @[i].status # COMPLETED
                          THEN now
                          ELSE @[i].completedDate]
                ELSE @[i]]]
    ELSE [prevMatrix EXCEPT !.tasks =
            Append(@, [id |-> id,
                       title |-> taskData.title,
                       description |-> taskData.description,
                       status |-> taskData.status,
                       priority |-> taskData.priority,
                       areaId |-> taskData.areaId,
                       completedDate |->
                           IF taskData.status = COMPLETED THEN now ELSE undefined])]

-----------------------------------------------------------------------------
(* validation.ts: validateMatrix, on matrices as the application holds and *)
(* stores them (string ids, Date objects)                                  *)

\* the string generateId gives for the n-th id
IdString(n) == "id-" \o ToString(n)

\* a matrix built by the factories and CRUD operations above, with its ids
\* and dates as JavaScript values
toJs(m) ==
    [goal |-> [id |-> IdString(m.goal.id), title |-> m.goal.title,
               description |-> m.goal.description,
               createdDate |-> DateObj(m.goal.createdDate)],
     focusAreas |-> [i \in DOMAIN m.focusAreas |->
                       [id |-> IdString(m.focusAreas[i].id),
                        title |-> m.focusAreas[i].title,
                        description |-> m.focusAreas[i].description,
                        goalId |-> IdString(m.focusAreas[i].goalId)]],
     tasks |-> [i \in DOMAIN m.tasks |->
                  [id |-> IdString(m.tasks[i].id), title |-> m.tasks[i].title,
                   description |-> m.tasks[i].description,
                   areaId |-> IdString(m.tasks[i].areaId),
                   status |-> m.tasks[i].status, priority |-> m.tasks[i].priority,
                   completedDate |-> IF m.tasks[i].completedDate = undefined
                                     THEN NoDate
                                     ELSE DateObj(m.tasks[i].completedDate)]]]

isString(x) == x # Absent

isGoal(value) ==
    /\ isString(value.id) /\ isString(value.title) /\ isString(value.description)
    /\ value.createdDate.kind = "Date"

isFocusArea(value) ==
    /\ isString(value.id) /\ isString(value.title) /\ isString(value.description)
    /\ isString(value.goalId)

isTask(value) ==
    /\ isString(value.id) /\ isString(value.title) /\ isString(value.description)
    /\ isString(value.areaId)
    /\ value.status \in TaskStatus
    /\ value.completedDate.kind \in {"absent", "Date"}

\* errors.push(message) when the condition holds
ErrorIf(condition, message) == IF condition THEN <<message>> ELSE <<>>

\* the messages pushed by a forEach: messages[i] is what item i pushes, the
\* empty string when it pushes nothing
Pushed(messages) ==
    LET isPushed(message) == message # ""
    IN SelectSeq(messages, isPushed)

\* goal.title.toLowerCase().includes('test') or includes('placeholder'), on
\* the titles the model uses
NotMeaningfulTitles == {"Test Goal", "Placeholder"}

validateHaradaMethodCompliance(matrix) ==
    LET taskCountByArea(areaId) ==
            Cardinality({i \in DOMAIN matrix.tasks : matrix.tasks[i].areaId = areaId})
        \* Object.entries(taskCountByArea): one entry per areaId, in the order
        \* of the first task of each area
        isFirstOfArea(i) ==
            \A j \in 1..(i - 1) : matrix.tasks[j].areaId # matrix.tasks[i].areaId
        areaTitles == {toLowerCase(matrix.focusAreas[i].title) : i \in DOMAIN matrix.focusAreas}
        errors ==
            ErrorIf(Len(matrix.focusAreas) > MAX_FOCUS_AREAS, "too many focus areas")
            \o ErrorIf(Len(matrix.tasks) > MAX_TOTAL_TASKS, "too many tasks")
            \o Pushed([i \in DOMAIN matrix.tasks |->
                         IF /\ isFirstOfArea(i)
                            /\ taskCountByArea(matrix.tasks[i].areaId) > MAX_TASKS_PER_AREA
                         THEN "too many tasks in focus area " \o matrix.tasks[i].areaId
                         ELSE ""])
            \o ErrorIf(matrix.goal.title \in NotMeaningfulTitles,
                       "Goal title should be meaningful")
            \o ErrorIf(Cardinality(areaTitles) # Len(matrix.focusAreas),
                       "Focus area titles should be unique")
    IN [isValid |-> errors = <<>>, errors |-> errors]

validateReferentialIntegrity(matrix) ==
    LET areaExists(task) ==
            \E a \in DOMAIN matrix.focusAreas : matrix.focusAreas[a].id = task.areaId
        errors ==
            Pushed([i \in DOMAIN matrix.focusAreas |->
                      IF matrix.focusAreas[i].goalId # matrix.goal.id
                      THEN "Focus area references non-existent goal "
                           \o matrix.focusAreas[i].goalId
                      ELSE ""])
            \o Pushed([i \in DOMAIN matrix.tasks |->
                         IF ~areaExists(matrix.tasks[i])
                         THEN "Task references non-existent focus area "
                              \o matrix.tasks[i].areaId
                         ELSE ""])
    IN [isValid |-> errors = <<>>, errors |-> errors]

validateDataStructure(matrix) ==
    LET allIds == <<matrix.goal.id>>
                  \o [i \in DOMAIN matrix.focusAreas |-> matrix.focusAreas[i].id]
                  \o [i \in DOMAIN matrix.tasks |-> matrix.tasks[i].id]
        uniqueIds == {allIds[i] : i \in DOMAIN allIds}
        errors ==
            ErrorIf(~isGoal(matrix.goal), "Goal data structure is invalid")
            \o Pushed([i \in DOMAIN matrix.focusAreas |->
                         IF ~isFocusArea(matrix.focusAreas[i])
                         THEN "Focus area at index " \o ToString(i - 1)
                              \o " has invalid structure"
                         ELSE ""])
            \o Pushed([i \in DOMAIN matrix.tasks |->
                         IF ~isTask(matrix.tasks[i])
                         THEN "Task at index " \o ToString(i - 1)
                              \o " has invalid structure"
                         ELSE ""])
            \o ErrorIf(Cardinality(uniqueIds) # Len(allIds),
                       "Duplicate IDs found in matrix data")
    IN [isValid |-> errors = <<>>, errors |-> errors]

\* crud.ts: validateMatrixIntegrity; its duplicate checks look at the ids of
\* the goal, of the focus areas and of the tasks separately
validateMatrixIntegrity(matrix) ==
    LET areaExists(task) ==
            \E a \in DOMAIN matrix.focusAreas : matrix.focusAreas[a].id = task.areaId
        goalIds == {matrix.goal.id}
        areaIds == {matrix.focusAreas[i].id : i \in DOMAIN matrix.focusAreas}
        taskIds == {matrix.tasks[i].id : i \in DOMAIN matrix.tasks}
        errors ==
            Pushed([i \in DOMAIN matrix.focusAreas |->
                      IF matrix.focusAreas[i].goalId # matrix.goal.id
                      THEN "Focus area " \o matrix.focusAreas[i].id
                           \o " references non-existent goal "
                           \o matrix.focusAreas[i].goalId
                      ELSE ""])
            \o Pushed([i \in DOMAIN matrix.tasks |->
                         IF ~areaExists(matrix.tasks[i])
                         THEN "Task " \o matrix.tasks[i].id
                              \o " references non-existent focus area "
                              \o matrix.tasks[i].areaId
                         ELSE ""])
            \o ErrorIf(Cardinality(goalIds) # 1, "Multiple goals with same ID found")
            \o ErrorIf(Cardinality(areaIds) # Len(matrix.focusAreas),
                       "Duplicate focus area IDs found")
            \o ErrorIf(Cardinality(taskIds) # Len(matrix.tasks),
                       "Duplicate task IDs found")
    IN [isValid |-> errors = <<>>, errors |-> errors]

validateMatrix(matrix) ==
    LET allErrors == validateHaradaMethodCompliance(matrix).errors
                     \o validateReferentialIntegrity(matrix).errors
                     \o validateDataStructure(matrix).errors
    IN [isValid |-> allErrors = <<>>, errors |-> allErrors]

-----------------------------------------------------------------------------
(* App: the component state before its mount effect has run *)

InitialGoalInput ==
    [title |-> "Become a Professional Baseball Player",
     description |-> "Achieve excellence in baseball"]

\* the record useAutoSave writes under its storageKey: {data, timestamp}; it
\* has no version and no lastSaved
autoSaveRecord(data, now) ==
    [isObject |-> TRUE, version |-> NoVersion, data |-> asValue(data),
     lastSaved |-> NoDate, timestamp |-> IsoString(now)]

\* useAutoSave's hydration effect on the item under its key: lastSaved is
\* set when the item parses and carries a timestamp
hydratesLastSaved(item) ==
    /\ item.kind \notin {"none", "empty"}
    /\ parseJson(item).error = NoError
    /\ item.value.isObject
    /\ "timestamp" \in DOMAIN item.value

\* useState initial values: matrixData is a fresh empty matrix, the dialog
\* is closed; the auto-save hook has saved nothing and has no timer.
\* mounted, loadError, backupData, atMount and lastEvent record what the
\* mount effects and the handlers did.
AppIdle ==
    app = [matrixData |-> toJs(createEmptyMatrix(InitialGoalInput, 1, 1)),
           statusFilter |-> "all",
           priorityFilter |-> "all",
           isRecoveryDialogOpen |-> FALSE,
           recoveryError |-> NoError,
           lastDataRef |-> Null,
           timerPending |-> FALSE,
           saveStatus |-> "unsaved",
           mounted |-> FALSE,
           loadError |-> NoError,
           backupData |-> Null,
           atMount |-> [matrixData |-> NoItem, backupData |-> NoItem],
           lastEvent |-> "none"]

-----------------------------------------------------------------------------
(* useAutoSave: the hook's state (isSaving, lastSaved, savedData), its     *)
(* refs (timeoutRef, lastDataRef) and the value it is given.  Values are   *)
(* compared as JSON.stringify compares them: by content.                   *)

\* the delay option, in clock ticks
Delay == 2

\* lastDataRef.current and savedData before any save
NoValue == "<null>"

ValueInputs == {"A", "B"}

NoTimer == [armed |-> FALSE, dataToSave |-> NoValue, due |-> 0]

NoAutoSave == [by |-> "none", value |-> NoValue, at |-> 0, data |-> NoValue,
               saved |-> NoValue, lastSaved |-> NoDate,
               failAt |-> 0, savedNow |-> FALSE,
               changeAt |-> 0, runAt |-> 0, restarted |-> FALSE]

\* performSave: the hook state after the call. failAt = 1: JSON.stringify or
\* setItem throws; failAt = 2: onSave throws, after the item was written and
\* setSavedData and setLastSaved were called; 0: nothing throws. What is
\* thrown is caught and handed to onError (errors: the last call did so);
\* isSaving ends false.
performSave(hook, dataToSave, failAt) ==
    IF ~hook.enabled THEN hook
    ELSE IF failAt = 1 THEN [hook EXCEPT !.isSaving = FALSE, !.errors = TRUE]
    ELSE [hook EXCEPT !.isSaving = FALSE,
                      !.stored = dataToSave,
                      !.savedData = dataToSave,
                      !.lastSaved = DateObj(hook.now),
                      !.errors = (failAt = 2)]

\* the debounced save effect that leaves a pending timer running
debouncedSaveEffect_KeepTimer(hook, data) ==
    IF ~hook.enabled THEN [hook EXCEPT !.data = data]
    ELSE IF data = hook.lastDataRef
    THEN [hook EXCEPT !.data = data, !.timeoutRef = NoTimer]
    ELSE IF hook.timeoutRef.armed THEN [hook EXCEPT !.data = data]
    ELSE [hook EXCEPT !.data = data,
                      !.timeoutRef = [armed |-> TRUE, dataToSave |-> data,
                                      due |-> hook.now + Delay]]

\* the debounced save effect, run (after the cleanup of its previous run)
\* whenever data or performSave changed: clear the pending timer; start a
\* new one unless data equals what was last saved
debouncedSaveEffect(hook, data) ==
    IF ~hook.enabled THEN [hook EXCEPT !.data = data]
    ELSE IF data = hook.lastDataRef
    THEN [hook EXCEPT !.data = data, !.timeoutRef = NoTimer]
    ELSE [hook EXCEPT !.data = data,
                      !.timeoutRef = [armed |-> TRUE, dataToSave |-> data,
                                      due |-> hook.now + Delay]]

\* the timer callback: performSave(data); lastDataRef.current = data
timeoutCallback(hook, failAt) ==
    [performSave(hook, hook.timeoutRef.dataToSave, failAt) EXCEPT
        !.lastDataRef = hook.timeoutRef.dataToSave,
        !.timeoutRef = NoTimer]

\* saveNow, up to its await: clear the pending timer and run performSave;
\* the assignment to lastDataRef.current waits for the promise
saveNow(hook, failAt) ==
    [performSave(hook, hook.data, failAt) EXCEPT
        !.timeoutRef = NoTimer,
        !.awaited = hook.data]

\* saveNow, after its await: lastDataRef.current = data
saveNowResumed(hook) ==
    [hook EXCEPT !.lastDataRef = hook.awaited, !.awaited = NoValue]

\* clearSaved: remove the item, reset savedData and lastSaved, clear the timer
clearSaved(hook) ==
    [hook EXCEPT !.stored = NoValue, !.savedData = NoValue, !.lastSaved = NoDate,
                 !.timeoutRef = NoTimer]

\* the hook after its first render with the given value and the data of the
\* record stored under its key (NoValue when nothing is stored): the
\* hydration effect sets savedData, and the debounce effect has run once
useAutoSave(enabled, data, stored) ==
    debouncedSaveEffect(
        [enabled |-> enabled, data |-> data, now |-> 0,
         isSaving |-> FALSE,
         lastSaved |-> IF stored = NoValue THEN NoDate ELSE DateObj(0),
         savedData |-> stored,
         lastDataRef |-> NoValue, timeoutRef |-> NoTimer,
         stored |-> stored, errors |-> FALSE, awaited |-> NoValue],
        data)

\* what has happened since the last change of the value: when it changed,
\* when the effect last ran, how many changes came less than Delay apart,
\* whether the value differed from the last saved one, whether the effect
\* ran again without a change, whether saveNow or clearSaved cleared the
\* timer, whether saveNow was called, how many timer saves fired, and the
\* save the last step made
NoBurst(hook) ==
    [changeAt |-> 0, runAt |-> 0, changes |-> 1,
     differs |-> hook.data # hook.lastDataRef,
     restarted |-> FALSE, cleared |-> FALSE, savedNow |-> FALSE, fired |-> 0,
     save |-> NoAutoSave]

AutoIdle ==
    LET hook == useAutoSave(TRUE, "A", NoValue)
    IN auto = [hook |-> hook, burst |-> NoBurst(hook)]

-----------------------------------------------------------------------------
(* The application state holder: one action per operation.  The caller    *)
(* replaces its reference by the returned matrix; when the operation      *)
(* throws it keeps the matrix it had.                                     *)

\* new Date(): the clock advances with every operation
Now == opCount + 2

\* ids an operation is called with: the entities at the given positions of
\* the array, the last one, and an id that identifies none
PickIds(seq, positions) ==
    {seq[i].id : i \in (positions \cup {Len(seq)}) \cap DOMAIN seq}
        \cup {MissingId}

AreaIdInputs == PickIds(matrixData.focusAreas, {1, 2})
TaskIdInputs == PickIds(matrixData.tasks, {1})

TitleInputs == {Absent, "Edited"}
DescriptionInputs == {Absent, "Edited description"}

Op(name, id, status, threw) ==
    [name |-> name, id |-> id, status |-> status, threw |-> threw]

Commit(res, name, id, status, usedId, stillGuarded) ==
    /\ opCount < MaxOps
    /\ matrixData' = res.value
    /\ prevData' = matrixData
    /\ callerData' = res.argument
    /\ lastOp' = Op(name, id, status, res.threw)
    /\ nextId' = IF usedId THEN nextId + 1 ELSE nextId
    /\ opCount' = opCount + 1
    /\ guarded' = (guarded /\ stillGuarded)
    /\ UNCHANGED notCrudVars

UpdateGoal ==
    \E goalId \in {matrixData.goal.id, MissingId},
       title \in TitleInputs, description \in DescriptionInputs :
        Commit(updateGoal(matrixData, goalId,
                          [title |-> title, description |-> description]),
               "updateGoal", goalId, Absent, FALSE, TRUE)

UpdateFocusArea ==
    \E areaId \in AreaIdInputs,
       title \in TitleInputs, description \in DescriptionInputs :
        Commit(updateFocusArea(matrixData, areaId,
                               [title |-> title, description |-> description]),
               "updateFocusArea", areaId, Absent, FALSE, TRUE)

AddFocusArea ==
    \E goalId \in {matrixData.goal.id, MissingId} :
        Commit(addFocusArea(matrixData,
                            [title |-> "New Area",
                             description |-> "A new focus area",
                             goalId |-> goalId], nextId),
               "addFocusArea", nextId, Absent, TRUE,
               validateFocusAreaAddition(matrixData).isValid)

DeleteFocusArea ==
    \E areaId \in AreaIdInputs :
        Commit(deleteFocusArea(matrixData, areaId),
               "deleteFocusArea", areaId, Absent, FALSE, TRUE)

AddTask ==
    \E areaId \in AreaIdInputs,
       status \in TaskStatus, priority \in {Absent, HIGH} :
        LET res == addTask(matrixData,
                           [title |-> "New task",
                            description |-> "A new task",
                            areaId |-> areaId, status |-> status,
                            priority |-> priority], nextId)
        IN Commit(res, "addTask", areaId, status, TRUE,
                  res.threw \/ validateTaskAddition(matrixData, areaId).isValid)

UpdateTask ==
    \E taskId \in TaskIdInputs,
       title \in TitleInputs, description \in DescriptionInputs,
       status \in TaskStatus \cup {Absent} :
        Commit(updateTask(matrixData, taskId,
                          [title |-> title, description |-> description,
                           status |-> status], Now),
               "updateTask", taskId, status, FALSE, TRUE)

UpdateTaskStatus ==
    \E taskId \in TaskIdInputs, status \in TaskStatus :
        Commit(updateTaskStatus(matrixData, taskId, status, Now),
               "updateTaskStatus", taskId, status, FALSE, TRUE)

DeleteTask ==
    \E taskId \in TaskIdInputs :
        Commit(deleteTask(matrixData, taskId),
               "deleteTask", taskId, Absent, FALSE, TRUE)

\* the editor is opened on an existing task with that task's area, or for a
\* new task with the first focus area (matrixData.focusAreas[0]?.id)
HandleSaveTask ==
    \E editingId \in TaskIdInputs,
       title \in {"Edited"}, status \in TaskStatus, priority \in {MEDIUM, HIGH} :
        LET idx == findIndex(matrixData.tasks, editingId)
            areaId == IF editingId # MissingId THEN matrixData.tasks[idx].areaId
                      ELSE IF matrixData.focusAreas = <<>> THEN MissingId
                      ELSE matrixData.focusAreas[1].id
            taskData == [title |-> title, description |-> "Edited description",
                         status |-> status, priority |-> priority,
                         areaId |-> areaId]
        IN Commit(Returned(matrixData, handleSaveTask(matrixData, editingId, taskData,
                                          nextId, Now)),
                  "handleSaveTask", editingId, status, editingId = MissingId,
                  editingId # MissingId
                      \/ validateTaskAddition(matrixData, areaId).isValid)

CrudInit ==
    /\ matrixData = createEmptyMatrix(InitialGoalInput, 1, 1)
    /\ prevData = matrixData
    /\ callerData = matrixData
    /\ lastOp = Op("createEmptyMatrix", MissingId, Absent, FALSE)
    /\ nextId = 1 + 1 + 8 + 64
    /\ opCount = 0
    /\ guarded = TRUE

Init ==
    /\ CrudInit
    /\ MigIdle
    /\ StoreIdle
    /\ AppIdle
    /\ AutoIdle
    /\ VersionIdle

Next ==
    \/ UpdateGoal
    \/ UpdateFocusArea
    \/ AddFocusArea
    \/ DeleteFocusArea
    \/ AddTask
    \/ UpdateTask
    \/ UpdateTaskStatus
    \/ DeleteTask
    \/ HandleSaveTask

Spec == Init /\ [][Next]_vars

\* the operations of crud.ts alone
CrudNext ==
    \/ UpdateGoal
    \/ UpdateFocusArea
    \/ AddFocusArea
    \/ DeleteFocusArea
    \/ AddTask
    \/ UpdateTask
    \/ UpdateTaskStatus
    \/ DeleteTask

CrudSpec == Init /\ [][CrudNext]_vars

-----------------------------------------------------------------------------
(* The migration engine as a state machine: migrations are registered,    *)
(* then migrate is called once on an envelope drawn by MigInit.           *)

MigInit ==
    /\ CrudInit
    /\ migrations = {}
    /\ storedData \in [version : VersionInputs, data : PayloadInputs, lastSaved : {1}]
    /\ givenData = storedData
    /\ migResult = NoResult
    /\ StoreIdle
    /\ AppIdle
    /\ AutoIdle
    /\ VersionIdle

Register ==
    /\ migResult = NoResult
    /\ Cardinality(migrations) < MaxMigrations
    /\ \E link \in LinkInputs, kind \in MigrationKinds :
          migrations' = register(migrations,
                                 [fromVersion |-> link[1], toVersion |-> link[2],
                                  kind |-> kind])
    /\ UNCHANGED <<storedData, givenData, migResult, notMigVars>>

Migrate ==
    /\ migResult = NoResult
    /\ LET out == migrate(migrations, storedData)
       IN /\ storedData' = out.storedData
          /\ migResult' = [called |-> TRUE, result |-> out.result]
    /\ givenData' = storedData
    /\ UNCHANGED <<migrations, notMigVars>>

MigNext ==
    \/ Register
    \/ Migrate

MigSpec == MigInit /\ [][MigNext]_vars

-----------------------------------------------------------------------------
(* Storage as a state machine: the application saves a matrix, or another  *)
(* writer leaves an item under the primary key, and loadMatrixData runs;   *)
(* or a matrix is taken through serialize and deserialize.                 *)
(* The shared migrationEngine has no migration registered.                 *)

StoreInit ==
    /\ CrudInit
    /\ MigIdle
    /\ StoreIdle
    /\ AppIdle
    /\ AutoIdle
    /\ VersionIdle

\* new Date() in the storage functions: advances with every write to the store
StoreNow == storeOp.count + 1

Wrote(name) == [name |-> name, count |-> storeOp.count + 1]

Quiet == ~loadResult.called /\ ~roundTrip.called /\ ~restoreResult.called

\* explored: a save on a fresh store, after a successful save, or after a
\* completed backup
SaveMatrixData ==
    /\ Quiet
    /\ storeOp.count < MaxStoreOps
    /\ storeOp.name \in {"none", "saveMatrixData", "createBackup"}
    /\ saveResult.called => saveResult.error = NoError
    /\ backupResult.called => localStorage.backupVersion # NoVersion
    /\ \E m \in MatrixInputs, length \in LengthInputs, escaped \in EscapedInputs,
          failAt \in 0..4 :
          LET out == saveMatrixData(localStorage, m, StoreNow, length, escaped, failAt)
          IN /\ localStorage' = out.store
             /\ saveResult' = [called |-> TRUE, matrixData |-> m, error |-> out.error,
                               length |-> length, storedLength |-> out.storedLength,
                               storeBefore |-> localStorage]
    /\ storeOp' = Wrote("saveMatrixData")
    /\ UNCHANGED <<backupResult, loadResult, roundTrip, restoreResult, notStoreVars>>

ClearMatrixData ==
    /\ Quiet
    /\ storeOp.count < MaxStoreOps
    /\ localStorage' = clearMatrixData(localStorage)
    /\ storeOp' = Wrote("clearMatrixData")
    /\ UNCHANGED <<saveResult, backupResult, loadResult, roundTrip, restoreResult, notStoreVars>>

\* explored: a backup on a fresh store or after a completed backup
CreateBackup ==
    /\ Quiet
    /\ storeOp.count < MaxStoreOps
    /\ storeOp.name \in {"none", "createBackup"}
    /\ backupResult.called => localStorage.backupVersion # NoVersion
    /\ \E m \in MatrixInputs, failAt \in 0..3 :
          LET out == createBackup(localStorage, m, StoreNow, failAt)
          IN /\ localStorage' = out.store
             /\ backupResult' = [called |-> TRUE, matrixData |-> m, error |-> out.error,
                                 written |-> (failAt = 0 \/ failAt > 1),
                                 storeBefore |-> localStorage]
    /\ storeOp' = Wrote("createBackup")
    /\ UNCHANGED <<saveResult, loadResult, roundTrip, restoreResult, notStoreVars>>

\* another writer (an older or newer build, another tab, a damaged store)
StoreItem ==
    /\ Quiet
    /\ storeOp.count = 0
    /\ \E item \in ItemInputs, flag \in {"true", "false", Absent} :
          localStorage' = [localStorage EXCEPT !.matrixData = item,
                                               !.compressed = flag]
    /\ storeOp' = Wrote("storeItem")
    /\ UNCHANGED <<saveResult, backupResult, loadResult, roundTrip, restoreResult,
                   notStoreVars>>

StoreBackupItem ==
    /\ Quiet
    /\ storeOp.count = 0
    /\ \E item \in BackupItemInputs :
          localStorage' = [localStorage EXCEPT !.backupData = item]
    /\ storeOp' = Wrote("storeBackupItem")
    /\ UNCHANGED <<saveResult, backupResult, loadResult, roundTrip, restoreResult,
                   notStoreVars>>

\* explored: a restore from a store no saveMatrixData has written to
RestoreFromBackup ==
    /\ Quiet
    /\ ~saveResult.called
    /\ LET out == restoreFromBackup(localStorage, migrations)
       IN restoreResult' = [called |-> TRUE, error |-> out.error, value |-> out.value]
    /\ UNCHANGED <<localStorage, storeOp, saveResult, backupResult, loadResult,
                   roundTrip, notStoreVars>>

LoadMatrixData ==
    /\ Quiet
    /\ LET out == loadMatrixData(localStorage, migrations)
       IN loadResult' = [called |-> TRUE, error |-> out.error, value |-> out.value]
    /\ UNCHANGED <<localStorage, storeOp, saveResult, backupResult, roundTrip,
                   restoreResult, notStoreVars>>

RoundTrip ==
    /\ Quiet
    /\ storeOp.count = 0
    /\ \E m \in MatrixInputs :
          LET envelope == serializeMatrixData(m, StoreNow)
              parsed == parseJson(stringify(envelope)).value
          IN roundTrip' =
                [called |-> TRUE, matrixData |-> m,
                 direct |-> deserializeMatrixData(migrations, envelope),
                 viaJson |-> deserializeMatrixData(migrations, parsed),
                 utilsDirect |-> utils_deserializeMatrixData(migrations, envelope),
                 utilsViaJson |-> utils_deserializeMatrixData(migrations, parsed)]
    /\ UNCHANGED <<localStorage, storeOp, saveResult, backupResult, loadResult,
                   restoreResult, notStoreVars>>

StoreNext ==
    \/ SaveMatrixData
    \/ ClearMatrixData
    \/ CreateBackup
    \/ StoreItem
    \/ StoreBackupItem
    \/ LoadMatrixData
    \/ RestoreFromBackup
    \/ RoundTrip

StoreSpec == StoreInit /\ [][StoreNext]_vars

-----------------------------------------------------------------------------
(* App start and recovery as a state machine (AppSpec).  Before the        *)
(* component mounts, an earlier session may have saved and backed up the   *)
(* matrix it held, and either key may hold something else.                 *)

\* matrices an earlier session can hold: the initial one, one with a task
\* completed, and one after the task editor created a task
SessionMatrixInputs ==
    LET initial == createEmptyMatrix(InitialGoalInput, 1, 1)
        newTask == [title |-> "Edited", description |-> "Edited description",
                    status |-> PENDING, priority |-> MEDIUM,
                    areaId |-> initial.focusAreas[1].id]
    IN {toJs(initial),
        toJs(updateTaskStatus(initial, 10, COMPLETED, 2).value),
        toJs(handleSaveTask(initial, MissingId, newTask, 74, 2))}

RecoveryOptions == {"backup", "empty", "manual"}

\* the CreateGoalInput RecoveryDialog.handleRecovery passes for each option
RecoveryGoalInput(option) ==
    CASE option = "backup" ->
            [title |-> "Recovered Matrix",
             description |-> "Matrix recovered after data corruption"]
      [] option = "empty" ->
            [title |-> "New Matrix",
             description |-> "Started fresh after data recovery"]
      [] option = "manual" ->
            [title |-> "Manual Recovery Matrix",
             description |-> "Manual recovery after data corruption"]

\* the auto-save of an earlier session: the hook's record, then the envelope
\* of saveMatrixData unless that raised
EarlierSave ==
    /\ ~app.mounted
    /\ localStorage.matrixData = NoItem
    /\ \E m \in SessionMatrixInputs, length \in {1000, 5 * 1024 * 1024} :
          localStorage' =
              saveMatrixData([localStorage EXCEPT
                                !.matrixData = stringify(autoSaveRecord(m, 1))],
                             m, 1, length, 0, 0).store
    /\ UNCHANGED <<storeOp, saveResult, backupResult, restoreResult, loadResult,
                   roundTrip, app, crudVars, migVars, autoVars, versionVars>>

\* the backup effect of an earlier session, after a successful save
EarlierBackup ==
    /\ ~app.mounted
    /\ localStorage.backupData = NoItem
    /\ \E m \in SessionMatrixInputs, failAt \in 0..3 :
          localStorage' = createBackup(localStorage, m, 1, failAt).store
    /\ UNCHANGED <<storeOp, saveResult, backupResult, restoreResult, loadResult,
                   roundTrip, app, crudVars, migVars, autoVars, versionVars>>

\* the primary payload or the backup is replaced by something else
Damage ==
    /\ ~app.mounted
    /\ \E key \in {"matrixData", "backupData"}, item \in BackupItemInputs :
          localStorage' = [localStorage EXCEPT ![key] = item]
    /\ UNCHANGED <<storeOp, saveResult, backupResult, restoreResult, loadResult,
                   roundTrip, app, crudVars, migVars, autoVars, versionVars>>

\* the effects of the render that follows a state change of App. onSave and
\* onError are new functions on every render, so the debounce effect runs
\* each time: it clears the timer and starts one unless matrixData equals
\* lastDataRef.current. The backup effect runs when saveStatus or matrixData
\* changed and saveStatus is 'saved'.
Rendered(before, after, store) ==
    [app |-> [after EXCEPT !.timerPending = (after.matrixData # after.lastDataRef)],
     store |-> IF /\ after.saveStatus = "saved"
                  /\ \/ before.saveStatus # "saved"
                     \/ before.matrixData # after.matrixData
               THEN createBackup(store, after.matrixData, 2, 0).store
               ELSE store]

\* the state the load effect sets: the loaded matrix; on a throw the backup,
\* or the recovery dialog when there is none
loadEffect(started, loaded, backupData) ==
    IF loaded.error = NoError
    THEN [started EXCEPT !.matrixData = IF loaded.value # Null
                                        THEN loaded.value ELSE @]
    ELSE IF backupData # Null
    THEN [started EXCEPT !.loadError = loaded.error,
                         !.backupData = backupData,
                         !.matrixData = backupData]
    ELSE [started EXCEPT !.loadError = loaded.error,
                         !.recoveryError = loaded.error,
                         !.isRecoveryDialogOpen = TRUE]

\* the mount effects: the load effect (load; on a throw, restore from backup
\* or open the dialog), the hook's hydration from the same key, then the
\* render with the state they set
Mount ==
    /\ ~app.mounted
    /\ LET started == [app EXCEPT
                         !.mounted = TRUE, !.lastEvent = "mount",
                         !.atMount = [matrixData |-> localStorage.matrixData,
                                      backupData |-> localStorage.backupData],
                         !.saveStatus =
                             IF hydratesLastSaved(localStorage.matrixData)
                             THEN "saved" ELSE @]
           rendered ==
               Rendered(app,
                        loadEffect(started,
                                   loadMatrixData(localStorage, migrations),
                                   restoreFromBackup(localStorage, migrations).value),
                        localStorage)
       IN /\ app' = rendered.app
          /\ localStorage' = rendered.store
    /\ UNCHANGED <<storeOp, saveResult, backupResult, restoreResult, loadResult,
                   roundTrip, crudVars, migVars, autoVars, versionVars>>

\* the debounce timer fires: performSave writes the hook's record under
\* 'ohtani-harada-matrix', sets savedData and lastSaved and calls onSave,
\* which is saveMatrixData; then lastDataRef.current = data and the render.
\* failure: "setItem" when the hook's write throws, "onSave" when
\* saveMatrixData raises (the payload is over the size limit), else "none".
AutoSaveFires ==
    /\ app.mounted
    /\ app.timerPending
    /\ \E failure \in {"none", "setItem", "onSave"} :
          LET data == app.matrixData
              written == [localStorage EXCEPT
                            !.matrixData = stringify(autoSaveRecord(data, 2))]
              length == IF failure = "onSave" THEN 5 * 1024 * 1024 ELSE 1000
              saved == saveMatrixData(written, data, 2, length, 0, 0).store
              after == [app EXCEPT
                          !.lastDataRef = data,
                          !.saveStatus = IF failure = "setItem" THEN @ ELSE "saved",
                          !.lastEvent = "autoSave " \o failure]
              rendered == Rendered(app, after,
                                   IF failure = "setItem" THEN localStorage ELSE saved)
          IN /\ app' = rendered.app
             /\ localStorage' = rendered.store
    /\ UNCHANGED <<storeOp, saveResult, backupResult, restoreResult, loadResult,
                   roundTrip, crudVars, migVars, autoVars, versionVars>>

\* RecoveryDialog.handleRecovery: onRecover(createEmptyMatrix(...)), which is
\* App.handleRecovery, then onClose(), which is App.handleCloseRecovery
HandleRecovery ==
    /\ app.isRecoveryDialogOpen
    /\ \E option \in RecoveryOptions :
          LET after == [app EXCEPT
                          !.matrixData =
                              toJs(createEmptyMatrix(RecoveryGoalInput(option), 101, 3)),
                          !.isRecoveryDialogOpen = FALSE,
                          !.recoveryError = NoError,
                          !.lastEvent = option]
              rendered == Rendered(app, after, localStorage)
          IN /\ app' = rendered.app
             /\ localStorage' = rendered.store
    /\ UNCHANGED <<storeOp, saveResult, backupResult, restoreResult, loadResult,
                   roundTrip, crudVars, migVars, autoVars, versionVars>>

\* the dialog's Cancel button
HandleCloseRecovery ==
    /\ app.isRecoveryDialogOpen
    /\ LET after == [app EXCEPT !.isRecoveryDialogOpen = FALSE,
                                !.recoveryError = NoError,
                                !.lastEvent = "close"]
           rendered == Rendered(app, after, localStorage)
       IN /\ app' = rendered.app
          /\ localStorage' = rendered.store
    /\ UNCHANGED <<storeOp, saveResult, backupResult, restoreResult, loadResult,
                   roundTrip, crudVars, migVars, autoVars, versionVars>>

AppInit ==
    /\ CrudInit
    /\ MigIdle
    /\ StoreIdle
    /\ AppIdle
    /\ AutoIdle
    /\ VersionIdle

AppNext ==
    \/ EarlierSave
    \/ EarlierBackup
    \/ Damage
    \/ Mount
    \/ AutoSaveFires
    \/ HandleRecovery
    \/ HandleCloseRecovery

AppSpec == AppInit /\ [][AppNext]_vars

-----------------------------------------------------------------------------
(* The organizer view as a state machine (OrganizerSpec): the user sets    *)
(* the status and priority filters and drags a task to another place in    *)
(* the list of its focus area.                                             *)

\* the matrix the session holds: a focus area with three tasks, two of them
\* pending and two of high priority, and a focus area with one task
OrganizerTask(n, area, status, priority) ==
    [id |-> "task-" \o ToString(n), title |-> "Task", description |-> "",
     areaId |-> area, status |-> status, priority |-> priority,
     completedDate |-> IF status = COMPLETED THEN DateObj(2) ELSE NoDate]

OrganizerMatrix ==
    [goal |-> stored_goal,
     focusAreas |-> <<stored_area, [stored_area EXCEPT !.id = "area-2"]>>,
     tasks |-> <<OrganizerTask(1, "area-1", PENDING, HIGH),
                 OrganizerTask(2, "area-1", PENDING, LOW),
                 OrganizerTask(3, "area-1", COMPLETED, HIGH),
                 OrganizerTask(4, "area-2", IN_PROGRESS, HIGH)>>]

FilterInputs(values) == {"all"} \cup values

\* filteredTasks of App
filteredTasks(state) ==
    LET statusMatch(task) ==
            state.statusFilter = "all" \/ task.status = state.statusFilter
        priorityMatch(task) ==
            state.priorityFilter = "all" \/ task.priority = state.priorityFilter
        keep(task) == statusMatch(task) /\ priorityMatch(task)
    IN SelectSeq(state.matrixData.tasks, keep)

\* arrayMove(array, from, to): the item at `from` is taken out and put in
\* at `to`
arrayMove(array, from, to) ==
    LET item == array[from]
        rest == [i \in 1..(Len(array) - 1) |->
                   IF i < from THEN array[i] ELSE array[i + 1]]
    IN [i \in 1..Len(array) |->
          IF i < to THEN rest[i] ELSE IF i = to THEN item ELSE rest[i - 1]]

\* TaskOrganizer.handleAreaTaskReorder on the tasks prop it was given
handleAreaTaskReorder(tasks, areaId, reorderedTasks) ==
    LET other(task) == task.areaId # areaId
        otherTasks == SelectSeq(tasks, other)
    IN otherTasks \o reorderedTasks

\* App.handleTaskReorder
handleTaskReorder(prev, reorderedTasks) ==
    [prev EXCEPT !.tasks = reorderedTasks]

OrganizerInit ==
    /\ CrudInit
    /\ MigIdle
    /\ StoreIdle
    /\ AutoIdle
    /\ VersionIdle
    /\ app = [matrixData |-> OrganizerMatrix,
              statusFilter |-> "all",
              priorityFilter |-> "all",
              isRecoveryDialogOpen |-> FALSE,
              recoveryError |-> NoError,
              lastDataRef |-> Null,
              timerPending |-> TRUE,
              saveStatus |-> "unsaved",
              mounted |-> TRUE,
              loadError |-> NoError,
              backupData |-> Null,
              atMount |-> [matrixData |-> NoItem, backupData |-> NoItem],
              lastEvent |-> "mount"]

OrganizerStep(after) ==
    LET rendered == Rendered(app, after, localStorage)
    IN /\ app' = rendered.app
       /\ localStorage' = rendered.store
       /\ UNCHANGED <<storeOp, saveResult, backupResult, restoreResult, loadResult,
                      roundTrip, crudVars, migVars, autoVars, versionVars>>

SetStatusFilter ==
    \E value \in FilterInputs(TaskStatus) :
        /\ value # app.statusFilter
        /\ OrganizerStep([app EXCEPT !.statusFilter = value,
                                     !.lastEvent = "setStatusFilter"])

SetPriorityFilter ==
    \E value \in FilterInputs(TaskPriority) :
        /\ value # app.priorityFilter
        /\ OrganizerStep([app EXCEPT !.priorityFilter = value,
                                     !.lastEvent = "setPriorityFilter"])

\* a drag in the TaskList of one focus area ends over another task of the
\* list: TaskList.handleDragEnd, TaskOrganizer.handleAreaTaskReorder,
\* App.handleTaskReorder
HandleTaskReorder ==
    LET tasks == filteredTasks(app)
    IN \E a \in DOMAIN app.matrixData.focusAreas :
          LET areaId == app.matrixData.focusAreas[a].id
              inArea(task) == task.areaId = areaId
              areaTasks == SelectSeq(tasks, inArea)
          IN \E oldIndex \in DOMAIN areaTasks, newIndex \in DOMAIN areaTasks :
                /\ oldIndex # newIndex
                /\ LET reorderedTasks == arrayMove(areaTasks, oldIndex, newIndex)
                       updatedTasks ==
                           handleAreaTaskReorder(tasks, areaId, reorderedTasks)
                   IN OrganizerStep(
                        [app EXCEPT
                           !.matrixData = handleTaskReorder(@, updatedTasks),
                           !.lastEvent = "handleTaskReorder"])

OrganizerNext ==
    \/ SetStatusFilter
    \/ SetPriorityFilter
    \/ HandleTaskReorder

OrganizerSpec == OrganizerInit /\ [][OrganizerNext]_vars

-----------------------------------------------------------------------------
(* useAutoSave as a state machine (AutoSpec): the value changes, the       *)
(* callbacks change, the clock ticks, the timer fires when it is due       *)

SaveBy(by, value, failAt) ==
    [by |-> by, value |-> value, at |-> auto.hook.now, data |-> auto.hook.data,
     saved |-> auto.hook.savedData, lastSaved |-> auto.hook.lastSaved,
     failAt |-> failAt,
     savedNow |-> auto.burst.savedNow,
     changeAt |-> auto.burst.changeAt, runAt |-> auto.burst.runAt,
     restarted |-> auto.burst.restarted]

\* the component re-renders with a new value (a new object, possibly with
\* the same content)
Change ==
    \E data \in ValueInputs :
        /\ auto.hook.awaited = NoValue
        /\ auto' = [hook |-> debouncedSaveEffect(auto.hook, data),
                    burst |-> [auto.burst EXCEPT
                                 !.changeAt = auto.hook.now,
                                 !.runAt = auto.hook.now,
                                 !.changes =
                                     IF auto.hook.now - auto.burst.changeAt < Delay
                                     THEN IF @ < 3 THEN @ + 1 ELSE @
                                     ELSE 1,
                                 !.differs = data # auto.hook.lastDataRef,
                                 !.restarted = FALSE,
                                 !.cleared = FALSE,
                                 !.savedNow = FALSE,
                                 !.fired = 0,
                                 !.save = NoAutoSave]]
        /\ UNCHANGED notAutoVars

\* the component re-renders with new onSave / onError callbacks: performSave
\* is a new function and the effect runs again with the same value
Rerender ==
    /\ auto' = [hook |-> debouncedSaveEffect(auto.hook, auto.hook.data),
                burst |-> [auto.burst EXCEPT !.runAt = auto.hook.now,
                                             !.restarted = TRUE,
                                             !.save = NoAutoSave]]
    /\ UNCHANGED notAutoVars

\* time passes; a timer that is due fires before more time passes
Tick ==
    /\ auto.hook.awaited = NoValue
    /\ auto.hook.now < MaxTime
    /\ ~(auto.hook.timeoutRef.armed /\ auto.hook.timeoutRef.due <= auto.hook.now)
    /\ auto' = [auto EXCEPT !.hook.now = @ + 1, !.burst.save = NoAutoSave]
    /\ UNCHANGED notAutoVars

TimeoutCallback ==
    /\ auto.hook.awaited = NoValue
    /\ auto.hook.timeoutRef.armed
    /\ auto.hook.timeoutRef.due <= auto.hook.now
    /\ \E failAt \in 0..2 :
          auto' = [hook |-> timeoutCallback(auto.hook, failAt),
                   burst |-> [auto.burst EXCEPT
                                !.fired = @ + 1,
                                !.save = SaveBy("timer",
                                                auto.hook.timeoutRef.dataToSave,
                                                failAt)]]
    /\ UNCHANGED notAutoVars

\* saveNow is called; the promise it awaits resolves before any other task
\* runs, but not before the re-render its state updates ask for
SaveNow ==
    /\ auto.hook.awaited = NoValue
    /\ \E failAt \in 0..2 :
          auto' = [hook |-> saveNow(auto.hook, failAt),
                   burst |-> [auto.burst EXCEPT
                                !.cleared = TRUE,
                                !.savedNow = TRUE,
                                !.save = SaveBy("saveNow", auto.hook.data, failAt)]]
    /\ UNCHANGED notAutoVars

SaveNowResumed ==
    /\ auto.hook.awaited # NoValue
    /\ auto' = [auto EXCEPT !.hook = saveNowResumed(auto.hook),
                            !.burst.save = NoAutoSave]
    /\ UNCHANGED notAutoVars

ClearSaved ==
    /\ auto.hook.awaited = NoValue
    /\ auto' = [hook |-> clearSaved(auto.hook),
                burst |-> [auto.burst EXCEPT !.cleared = TRUE,
                                             !.save = NoAutoSave]]
    /\ UNCHANGED notAutoVars

AutoInit ==
    /\ CrudInit
    /\ MigIdle
    /\ StoreIdle
    /\ AppIdle
    /\ VersionIdle
    /\ \E enabled \in BOOLEAN, stored \in {NoValue} \cup ValueInputs :
          LET hook == useAutoSave(enabled, "A", stored)
          IN auto = [hook |-> hook, burst |-> NoBurst(hook)]

AutoNext ==
    \/ Change
    \/ Rerender
    \/ Tick
    \/ TimeoutCallback
    \/ SaveNow
    \/ SaveNowResumed
    \/ ClearSaved

AutoSpec == AutoInit /\ [][AutoNext]_vars

-----------------------------------------------------------------------------
(* VersionSpec: two versions are chosen, then compared *)

VersionInit ==
    /\ CrudInit
    /\ MigIdle
    /\ StoreIdle
    /\ AppIdle
    /\ AutoIdle
    /\ \E v1 \in ComparedVersionInputs, v2 \in ComparedVersionInputs :
          compared = [v1 |-> v1, v2 |-> v2, result |-> NotCompared]
    /\ validated = NotValidated

Compare ==
    /\ ~compared.result.called
    /\ compared' = [compared EXCEPT !.result =
                      [called |-> TRUE,
                       compare |-> compare(compared.v1, compared.v2),
                       reverse |-> compare(compared.v2, compared.v1),
                       isLessThan |-> isLessThan(compared.v1, compared.v2),
                       isEqual |-> isEqual(compared.v1, compared.v2),
                       isGreaterThan |-> isGreaterThan(compared.v1, compared.v2),
                       needsMigration |-> needsMigration([version |-> compared.v1])]]
    /\ UNCHANGED <<validated, notVersionVars>>

VersionNext == Compare

VersionSpec == VersionInit /\ [][VersionNext]_vars

-----------------------------------------------------------------------------
(* ValidateSpec: a MatrixData is chosen, then handed to the integrity      *)
(* checks of the CRUD module and of the Validation module                  *)

\* matrices of up to MaxCheckedItems focus areas and tasks whose ids and
\* references may collide or dangle
CheckedAreaInputs ==
    {[id |-> id, title |-> "Area", description |-> "", goalId |-> goalId] :
        id \in {"goal-1", "area-1", "area-2"}, goalId \in {"goal-1", "goal-2"}}

CheckedTaskInputs ==
    {[id |-> id, title |-> "Task", description |-> "", areaId |-> areaId,
      status |-> PENDING, priority |-> MEDIUM, completedDate |-> NoDate] :
        id \in {"goal-1", "area-1", "task-1"}, areaId \in {"area-1", "area-3"}}

CheckedMatrixInputs ==
    {[goal |-> stored_goal, focusAreas |-> areas, tasks |-> tasks] :
        areas \in UNION {[1..n -> CheckedAreaInputs] : n \in 0..MaxCheckedItems},
        tasks \in UNION {[1..n -> CheckedTaskInputs] : n \in 0..MaxCheckedItems}}

ValidateInit ==
    /\ CrudInit
    /\ MigIdle
    /\ StoreIdle
    /\ AppIdle
    /\ AutoIdle
    /\ compared = [v1 |-> STORAGE_VERSION, v2 |-> STORAGE_VERSION,
                   result |-> NotCompared]
    /\ \E matrix \in CheckedMatrixInputs :
          validated = [called |-> FALSE, matrix |-> matrix]

Validate ==
    /\ ~validated.called
    /\ validated' = [called |-> TRUE,
                     matrix |-> validated.matrix,
                     integrity |-> validateMatrixIntegrity(validated.matrix),
                     referential |-> validateReferentialIntegrity(validated.matrix),
                     structure |-> validateDataStructure(validated.matrix)]
    /\ UNCHANGED <<compared, notVersionVars>>

ValidateNext == Validate

ValidateSpec == ValidateInit /\ [][ValidateNext]_vars

-----------------------------------------------------------------------------
(* Claims about the entity graph under CRUD operations (Spec) *)

TasksInArea(m, areaId) ==
    Cardinality({i \in DOMAIN m.tasks : m.tasks[i].areaId = areaId})

WithinLimits(m) ==
    /\ Len(m.focusAreas) <= 8
    /\ Len(m.tasks) <= 64
    /\ \A a \in DOMAIN m.focusAreas : TasksInArea(m, m.focusAreas[a].id) <= 8

\* C1: in every matrix reachable from createEmptyMatrix by addTask,
\* updateTask, updateTaskStatus, deleteTask and the task-editor save handler,
\* a task has a completedDate if and only if its status is Completed.
C1_CompletedDateIffCompleted ==
    \A i \in DOMAIN matrixData.tasks :
        (matrixData.tasks[i].completedDate # undefined)
            <=> (matrixData.tasks[i].status = COMPLETED)

\* C2: deleteFocusArea(data, A.id) on a matrix containing A returns a matrix
\* with neither A nor any task of A; the goal, every other focus area and
\* every task of another area are present, unchanged, in their original
\* relative order (each kept element moves up by the number of removed
\* elements before it, and nothing else is in the result).
C2_DeleteFocusAreaCascade ==
    (lastOp.name = "deleteFocusArea" /\ ~lastOp.threw) =>
        LET A == lastOp.id
            oldAreas == prevData.focusAreas
            oldTasks == prevData.tasks
            goneAreas(i) == Cardinality({j \in 1..i : oldAreas[j].id = A})
            goneTasks(i) == Cardinality({j \in 1..i : oldTasks[j].areaId = A})
        IN /\ matrixData.goal = prevData.goal
           /\ \A i \in DOMAIN matrixData.focusAreas : matrixData.focusAreas[i].id # A
           /\ \A i \in DOMAIN matrixData.tasks : matrixData.tasks[i].areaId # A
           /\ Len(matrixData.focusAreas) = Len(oldAreas) - goneAreas(Len(oldAreas))
           /\ Len(matrixData.tasks) = Len(oldTasks) - goneTasks(Len(oldTasks))
           /\ \A i \in DOMAIN oldAreas :
                 oldAreas[i].id # A =>
                    matrixData.focusAreas[i - goneAreas(i)] = oldAreas[i]
           /\ \A i \in DOMAIN oldTasks :
                 oldTasks[i].areaId # A =>
                    matrixData.tasks[i - goneTasks(i)] = oldTasks[i]

\* C2 witness: an area that is neither first nor last, holding tasks, was
\* deleted from a matrix that an earlier operation had already changed.
C2_Witness ==
    /\ lastOp.name = "deleteFocusArea" /\ ~lastOp.threw
    /\ opCount = 2
    /\ prevData.focusAreas[2].id = lastOp.id
    /\ Len(prevData.focusAreas) > 2
    /\ TasksInArea(prevData, lastOp.id) > 0
    /\ Len(matrixData.tasks) > 0
    /\ \E i \in DOMAIN prevData.tasks : prevData.tasks[i].title # "Task 1"
            /\ prevData.tasks[i].status # PENDING

\* C9: every matrix reachable from createEmptyMatrix by CRUD operations has
\* at most 8 focus areas, at most 8 tasks per focus area and at most 64 tasks.
C9_WithinLimits == WithinLimits(matrixData)

\* C10: validateTaskAddition is invalid once the area holds 8 tasks or the
\* matrix holds 64 tasks, validateFocusAreaAddition is invalid once the matrix
\* holds 8 focus areas, and a matrix reached by additions that were each made
\* where the guard passes stays within 8 areas, 8 tasks per area, 64 tasks.
C10_GuardsKeepLimits ==
    /\ \A areaId \in AreaIdInputs \cup
                      {matrixData.focusAreas[a].id : a \in DOMAIN matrixData.focusAreas} :
          (TasksInArea(matrixData, areaId) >= 8 \/ Len(matrixData.tasks) >= 64)
             => ~validateTaskAddition(matrixData, areaId).isValid
    /\ Len(matrixData.focusAreas) >= 8
          => ~validateFocusAreaAddition(matrixData).isValid
    /\ guarded => WithinLimits(matrixData)

\* C10 witness: a guarded addTask has filled its area, whose guard now
\* rejects a further task.
C10_Witness ==
    /\ guarded
    /\ lastOp.name = "addTask" /\ ~lastOp.threw
    /\ Len(matrixData.tasks) > Len(prevData.tasks)
    /\ validateTaskAddition(prevData, lastOp.id).isValid
    /\ ~validateTaskAddition(matrixData, lastOp.id).isValid

\* C27: in every matrix reachable from createEmptyMatrix by the CRUD
\* operations, every task's areaId is the id of a focus area of the matrix;
\* getTasksWithAreas does not throw and pairs every task with that area, and
\* validateReferentialIntegrity reports no task error.
C27_TasksReferenceAreas ==
    /\ \A i \in DOMAIN matrixData.tasks :
          \E a \in DOMAIN matrixData.focusAreas :
              matrixData.focusAreas[a].id = matrixData.tasks[i].areaId
    /\ ~getTasksWithAreas(matrixData).threw
    /\ \A i \in DOMAIN matrixData.tasks :
          getTasksWithAreas(matrixData).value[i].focusArea.id
              = matrixData.tasks[i].areaId
    /\ LET errors == validateReferentialIntegrity(toJs(matrixData)).errors
       IN \A e \in DOMAIN errors :
             \A i \in DOMAIN matrixData.tasks :
                 errors[e] # "Task references non-existent focus area "
                             \o IdString(matrixData.tasks[i].areaId)

\* C27 witness: a focus area with tasks was deleted, then a task was added
\* to one of the remaining areas
C27_Witness ==
    /\ opCount = 2
    /\ lastOp.name = "addTask" /\ ~lastOp.threw
    /\ Len(prevData.focusAreas) = 7
    /\ Len(prevData.tasks) = 56
    /\ Len(matrixData.tasks) = 57

\* C11: in every matrix reachable from createEmptyMatrix by CRUD operations,
\* addFocusArea with any input included, every focus area's goalId equals the
\* id of the matrix's goal.
C11_GoalIdIsGoal ==
    \A i \in DOMAIN matrixData.focusAreas :
        matrixData.focusAreas[i].goalId = matrixData.goal.id

\* the id the last operation was given identifies an entity of its kind
IdExists ==
    CASE lastOp.name = "updateGoal" -> prevData.goal.id = lastOp.id
      [] lastOp.name \in {"updateFocusArea", "deleteFocusArea", "addTask"} ->
            \E i \in DOMAIN prevData.focusAreas : prevData.focusAreas[i].id = lastOp.id
      [] lastOp.name \in {"updateTask", "updateTaskStatus", "deleteTask"} ->
            \E i \in DOMAIN prevData.tasks : prevData.tasks[i].id = lastOp.id
      [] OTHER -> TRUE

CrudOps ==
    {"updateGoal", "updateFocusArea", "addFocusArea", "deleteFocusArea",
     "addTask", "updateTask", "updateTaskStatus", "deleteTask"}

\* C12: updateGoal, updateFocusArea, deleteFocusArea, updateTask,
\* updateTaskStatus and deleteTask throw exactly when the id given identifies
\* no entity of that kind, addTask throws exactly when input.areaId is not the
\* id of a current focus area; in every other case a matrix is returned.
C12_ThrowsIffNotFound ==
    lastOp.name \in CrudOps => (lastOp.threw <=> ~IdExists)

\* C12 witness: addTask threw for an area id that identifies no focus area.
C12_Witness ==
    /\ lastOp.name = "addTask"
    /\ lastOp.threw
    /\ ~IdExists
    /\ matrixData = prevData

OldTask == prevData.tasks[findIndex(prevData.tasks, lastOp.id)]
NewTask == matrixData.tasks[findIndex(prevData.tasks, lastOp.id)]

\* the clock reading at the last operation
CallTime == opCount + 1

\* C14: updateTask with status Completed yields a task with a completedDate,
\* newly stamped when the task had none and kept when it had one; updateTask
\* with another status on a Completed task yields completedDate undefined;
\* updateTaskStatus(data, id, s) returns what updateTask(data, id, {status: s})
\* returns.
C14_StatusStamping ==
    /\ (lastOp.name \in {"updateTask", "updateTaskStatus"} /\ ~lastOp.threw) =>
          /\ lastOp.status = COMPLETED =>
                /\ NewTask.completedDate # undefined
                /\ OldTask.completedDate = undefined =>
                      NewTask.completedDate = CallTime
                /\ OldTask.completedDate # undefined =>
                      NewTask.completedDate = OldTask.completedDate
          /\ (lastOp.status \in TaskStatus \ {COMPLETED} /\ OldTask.status = COMPLETED) =>
                NewTask.completedDate = undefined
    /\ lastOp.name = "updateTaskStatus" =>
          LET same == updateTask(prevData, lastOp.id,
                                 [title |-> Absent, description |-> Absent,
                                  status |-> lastOp.status], CallTime)
          IN lastOp.threw = same.threw /\ matrixData = same.value

\* C14 witness: a task completed earlier was set to Completed again and kept
\* its date.
C14_Witness ==
    /\ lastOp.name = "updateTask"
    /\ ~lastOp.threw
    /\ lastOp.status = COMPLETED
    /\ OldTask.completedDate # undefined
    /\ OldTask.completedDate # CallTime
    /\ NewTask.completedDate = OldTask.completedDate

-----------------------------------------------------------------------------
(* Claims about the migration engine (MigSpec) *)

\* the version that follows v: patch + 1, rolling into minor, then into major
NextOf(v) ==
    LET p == parse(v)
    IN CASE p.patch + 1 <= 999 -> <<p.major, p.minor, p.patch + 1>>
         [] p.patch + 1 > 999 /\ p.minor + 1 <= 999 -> <<p.major, p.minor + 1, 0>>
         [] OTHER -> <<p.major + 1, 0, 0>>

\* v is older / newer than STORAGE_VERSION, component by component
Older(v) ==
    LET p == parse(v)
        c == parse(STORAGE_VERSION)
    IN \/ p.major < c.major
       \/ p.major = c.major /\ p.minor < c.minor
       \/ p.major = c.major /\ p.minor = c.minor /\ p.patch < c.patch

Newer(v) ==
    LET p == parse(v)
        c == parse(STORAGE_VERSION)
    IN \/ p.major > c.major
       \/ p.major = c.major /\ p.minor > c.minor
       \/ p.major = c.major /\ p.minor = c.minor /\ p.patch > c.patch

\* a transformation is registered for every step v -> NextOf(v) -> ... up to
\* STORAGE_VERSION
RECURSIVE ChainRegistered(_)
ChainRegistered(v) ==
    \/ ~Older(v)
    \/ /\ \E m \in migrations : m.fromVersion = v /\ m.toVersion = NextOf(v)
       /\ ChainRegistered(NextOf(v))

\* the transformations of that chain, in order
RECURSIVE Chain(_)
Chain(v) ==
    IF ~Older(v) THEN <<>>
    ELSE <<CHOOSE m \in migrations : m.fromVersion = v /\ m.toVersion = NextOf(v)>>
            \o Chain(NextOf(v))

\* every transformation of the chain returns when run on the payload the one
\* before it produced
RECURSIVE NoneThrows(_, _)
NoneThrows(chain, data) ==
    \/ chain = <<>>
    \/ /\ ~runMigrate(Head(chain), data).threw
       /\ NoneThrows(Tail(chain), runMigrate(Head(chain), data).data)

MigrateCalled == migResult.called

\* the conclusion of C5: success, no errors, exactly the chain applied once
\* each in ascending order, the envelope at STORAGE_VERSION
CompleteChainApplied ==
    LET r == migResult.result
        chain == Chain(givenData.version)
    IN /\ r.success
       /\ r.errors = <<>>
       /\ r.appliedMigrations = chain
       /\ \A i \in DOMAIN r.appliedMigrations :
             /\ Older(r.appliedMigrations[i].fromVersion)
             /\ \A j \in DOMAIN r.appliedMigrations :
                   i < j => compare(r.appliedMigrations[i].toVersion,
                                    r.appliedMigrations[j].toVersion) < 0
       /\ storedData.version = STORAGE_VERSION

C6_FailureLeavesEnvelope ==
    (/\ MigrateCalled
     /\ Older(givenData.version)
     /\ \/ ~ChainRegistered(givenData.version)
        \/ ~NoneThrows(Chain(givenData.version), givenData.data))
        =>
        LET r == migResult.result
        IN /\ ~r.success
           /\ r.errors # <<>>
           /\ ~ChainRegistered(givenData.version) =>
                 /\ r.appliedMigrations = <<>>
                 /\ \E e \in DOMAIN r.errors :
                       \E v \in VersionInputs \cup {l[1] : l \in LinkInputs}
                                              \cup {l[2] : l \in LinkInputs} :
                          /\ r.errors[e].versions = <<v, NextOf(v)>>
                          /\ ~\E m \in migrations :
                                m.fromVersion = v /\ m.toVersion = NextOf(v)
           /\ storedData = givenData

\* the part of C6 about the envelope alone: a failed migrate leaves the
\* envelope's version and data as they were
C6_FailureLeavesData ==
    (MigrateCalled /\ ~migResult.result.success) => storedData = givenData

\* C8: migrate on an envelope whose version is greater than STORAGE_VERSION
\* returns success = false with a non-empty errors list, applies no
\* transformation and leaves the envelope's version and data unmodified.
C8_NewerVersionRejected ==
    (MigrateCalled /\ Newer(givenData.version)) =>
        /\ ~migResult.result.success
        /\ migResult.result.errors # <<>>
        /\ migResult.result.appliedMigrations = <<>>
        /\ storedData = givenData

\* C8 witness: migrate was called on a newer envelope while a transformation
\* was registered.
C8_Witness ==
    /\ MigrateCalled
    /\ Newer(givenData.version)
    /\ migrations # {}

-----------------------------------------------------------------------------
(* Claims about serialization and loading (StoreSpec) *)

\* the same matrix came back
SameMatrix(out, matrix) == out.error = NoError /\ out.value = matrix

\* C3: for every valid MatrixData m, deserializeMatrixData(serializeMatrixData(m))
\* equals m, also when the envelope goes through JSON.stringify / JSON.parse:
\* same goal with its createdDate, same focus areas, same tasks in the same
\* order with status, priority and completedDate preserved. Stated for both
\* copies of the storage module.
C3_RoundTrip ==
    roundTrip.called =>
        /\ SameMatrix(roundTrip.direct, roundTrip.matrixData)
        /\ SameMatrix(roundTrip.viaJson, roundTrip.matrixData)
        /\ SameMatrix(roundTrip.utilsDirect, roundTrip.matrixData)
        /\ SameMatrix(roundTrip.utilsViaJson, roundTrip.matrixData)

\* the text loadMatrixData hands to JSON.parse is JSON text
PayloadIsJson ==
    /\ localStorage.matrixData.kind = "json"
    /\ localStorage.matrixData.base64 => localStorage.compressed = "true"

PayloadStored == localStorage.matrixData.kind \notin {"none", "empty"}

\* the envelope the stored payload holds
PayloadEnvelope == localStorage.matrixData.value

PayloadHoldsEnvelope == PayloadIsJson /\ PayloadEnvelope.isObject

PayloadTasks ==
    IF PayloadHoldsEnvelope /\ PayloadEnvelope.data.isObject
       /\ PayloadEnvelope.data.tasks.isArray
    THEN {PayloadEnvelope.data.tasks.items[i] :
            i \in DOMAIN PayloadEnvelope.data.tasks.items}
    ELSE {}

\* C4: loadMatrixData raises StorageCorruptionError, and returns no matrix,
\* whenever the stored primary payload is not valid JSON, the envelope has no
\* version, a task's status is not pending / in-progress / completed, or the
\* goal's createdDate or a present task completedDate is not a parseable date.
C4_CorruptionRaised ==
    (/\ loadResult.called
     /\ PayloadStored
     /\ \/ ~PayloadIsJson
        \/ PayloadHoldsEnvelope /\ PayloadEnvelope.version = NoVersion
        \/ \E task \in PayloadTasks : task.isObject /\ task.status \notin TaskStatus
        \/ /\ PayloadHoldsEnvelope
           /\ PayloadEnvelope.data.isObject
           /\ PayloadEnvelope.data.goal.isObject
           /\ PayloadEnvelope.data.goal.createdDate.kind \notin {"Date", "iso"}
        \/ \E task \in PayloadTasks :
              /\ task.isObject
              /\ task.completedDate.kind \notin {"absent", "Date", "iso"})
        => loadResult.error = StorageCorruptionError

\* C7: loading an envelope whose version is greater than STORAGE_VERSION fails
\* with an error; no MatrixData is returned for future-version data.
C7_FutureVersionFails ==
    (/\ loadResult.called
     /\ PayloadHoldsEnvelope
     /\ PayloadEnvelope.version # NoVersion
     /\ Newer(PayloadEnvelope.version))
        => loadResult.error # NoError

\* the last write to the store was a saveMatrixData
JustSaved == storeOp.name = "saveMatrixData" /\ saveResult.called

\* C15: when the serialized envelope exceeds the ceiling, saveMatrixData throws
\* StorageQuotaExceededError before any write: every key of the store (primary
\* payload, version, last-saved, compressed flag, backup keys) has the value
\* it had before the call.
C15_QuotaBeforeWrite ==
    (JustSaved /\ saveResult.length > 4 * 1024 * 1024) =>
        /\ saveResult.error = StorageQuotaExceededError
        /\ localStorage = saveResult.storeBefore

\* C15 witness: an oversized save was refused on a store that held an earlier
\* save.
C15_Witness ==
    /\ JustSaved
    /\ saveResult.length > 4 * 1024 * 1024
    /\ saveResult.error = StorageQuotaExceededError
    /\ saveResult.storeBefore.matrixData.kind = "json"
    /\ localStorage.matrixData.value.data # stringifyData(asValue(saveResult.matrixData))

\* C16: after every successful saveMatrixData(m) the compressed flag is 'true'
\* exactly when the stored payload is in the compressed encoding, the
\* compressed encoding is stored only when it is more than 10% shorter than
\* the plain JSON, and the next loadMatrixData returns m.
C16_EncodingRecorded ==
    (JustSaved /\ saveResult.error = NoError) =>
        /\ localStorage.compressed = "true" <=> localStorage.matrixData.base64
        /\ localStorage.matrixData.base64 =>
              10 * saveResult.storedLength < 9 * saveResult.length
        /\ loadResult.called => SameMatrix(loadResult, saveResult.matrixData)

\* C16 witness: a payload above the compression threshold was saved and the
\* load that followed returned the matrix.
C16_Witness ==
    /\ JustSaved
    /\ saveResult.error = NoError
    /\ saveResult.length > 1024 * 1024
    /\ saveResult.matrixData.tasks # <<>>
    /\ loadResult.called
    /\ SameMatrix(loadResult, saveResult.matrixData)

\* C17: loadMatrixData returns null, without raising, exactly when no primary
\* payload is stored (hasMatrixData is false): before the first save and
\* after every clearMatrixData; when a payload is stored it returns a
\* MatrixData or raises.
C17_NullIffNothingStored ==
    loadResult.called =>
        /\ (loadResult.error = NoError /\ loadResult.value = Null)
              <=> localStorage.matrixData = NoItem
        /\ localStorage.matrixData = NoItem <=> ~hasMatrixData(localStorage)

\* the backup key holds what the last createBackup wrote
BackupWritten ==
    /\ backupResult.called
    /\ backupResult.written
    /\ storeOp.name = "createBackup"

\* the backup key holds nothing that parses, migrates and validates
BackupUnusable ==
    \/ localStorage.backupData.kind # "json"
    \/ ~localStorage.backupData.value.isObject
    \/ localStorage.backupData.value.version = NoVersion
    \/ Older(localStorage.backupData.value.version)
    \/ ~localStorage.backupData.value.data.isObject
    \/ localStorage.backupData.value.data.goal.createdDate.kind \notin {"Date", "iso"}

\* C18: createBackup never raises, whatever the store does; restoreFromBackup
\* never raises either: it returns null when no backup is stored or the
\* backup cannot be parsed, migrated or validated, and otherwise the matrix
\* that was last backed up.
C18_BackupNeverRaises ==
    /\ backupResult.called => backupResult.error = NoError
    /\ restoreResult.called =>
          /\ restoreResult.error = NoError
          /\ BackupUnusable => restoreResult.value = Null
          /\ BackupWritten => restoreResult.value = backupResult.matrixData
          /\ localStorage.backupData.kind = "json" =>
                \/ restoreResult.value = Null
                \/ stringifyData(asValue(restoreResult.value))
                      = localStorage.backupData.value.data

\* C18 witness: a second createBackup failed at its first write and
\* restoreFromBackup returned the matrix of the first one.
C18_Witness ==
    /\ backupResult.called
    /\ ~backupResult.written
    /\ backupResult.storeBefore.backupData.kind = "json"
    /\ restoreResult.called
    /\ restoreResult.value # Null
    /\ restoreResult.value # backupResult.matrixData


-----------------------------------------------------------------------------
(* Claims about App start and recovery (AppSpec) *)

\* C19: when loadMatrixData raised at start, a non-null restoreFromBackup
\* result was adopted, otherwise the recovery dialog was opened; each of the
\* three dialog options hands over a matrix passing validateMatrix; and on
\* every such path, dismissing the dialog included, the matrix the app
\* holds passes validateMatrix.
C19_RecoveryYieldsValidMatrix ==
    (app.mounted /\ app.loadError # NoError) =>
        /\ app.backupData # Null =>
              /\ app.matrixData = app.backupData
              /\ ~app.isRecoveryDialogOpen
        /\ (app.backupData = Null /\ app.lastEvent = "mount") =>
              app.isRecoveryDialogOpen
        /\ app.lastEvent \in RecoveryOptions =>
              /\ validateMatrix(app.matrixData).isValid
              /\ ~app.isRecoveryDialogOpen
        /\ validateMatrix(app.matrixData).isValid

-----------------------------------------------------------------------------
(* Claims about useAutoSave (AutoSpec) *)

\* the last step was a save made by the timer
TimerSaved == auto.burst.save.by = "timer"

\* the clock has passed the moment a timer started by the last run of the
\* effect is due
Settled == auto.hook.now > auto.burst.runAt + Delay

C21_SavesOnlyChangedValue ==
    (auto.hook.enabled /\ TimerSaved) => auto.burst.save.value # auto.burst.save.saved

\* the last step was a call of saveNow
SavedNow == auto.burst.save.by = "saveNow"

\* C22: saveNow cancels the pending timer and saves the current value at
\* once; no timer save fires after it until the value changes again.
C22_SaveNowSavesOnce ==
    auto.hook.enabled =>
        /\ SavedNow =>
              /\ ~auto.hook.timeoutRef.armed
              /\ auto.burst.save.value = auto.burst.save.data
              /\ auto.burst.save.at = auto.hook.now
        /\ TimerSaved => ~auto.burst.save.savedNow

\* the last step was a save, by the timer or by saveNow, in which the store
\* write or onSave threw
FailedSave == auto.burst.save.by # "none" /\ auto.burst.save.failAt # 0

\* C23: after a save in which the store write or onSave threw, onError was
\* called, isSaving is false, the value is unchanged, and savedData and
\* lastSaved are those of the last successful save.
C23_FailedSaveNotRecorded ==
    (auto.hook.enabled /\ FailedSave) =>
        /\ auto.hook.errors
        /\ ~auto.hook.isSaving
        /\ auto.hook.data = auto.burst.save.data
        /\ auto.hook.savedData = auto.burst.save.saved
        /\ auto.hook.lastSaved = auto.burst.save.lastSaved

-----------------------------------------------------------------------------
(* Claims about the auto-save of App and the store (AppSpec) *)

\* the primary key holds an envelope with a version, as saveMatrixData
\* writes it
PrimaryIsEnvelope ==
    /\ localStorage.matrixData.kind = "json"
    /\ localStorage.matrixData.value.isObject
    /\ localStorage.matrixData.value.version # NoVersion

AutoSaveEvents == {"autoSave none", "autoSave setItem", "autoSave onSave"}

\* C24: the hook's own record never replaces the versioned envelope: when
\* the primary key holds an envelope with a version, it still does after an
\* auto-save, also one whose onSave failed.
C24_HookKeepsEnvelope ==
    [][(PrimaryIsEnvelope /\ app' # app /\ app'.lastEvent \in AutoSaveEvents)
         => PrimaryIsEnvelope']_vars

\* C29: while the recovery dialog is open, the primary payload and the
\* backup are those the store held when the application started.
C29_StoreKeptWhileDialogOpen ==
    app.isRecoveryDialogOpen =>
        /\ localStorage.matrixData = app.atMount.matrixData
        /\ localStorage.backupData = app.atMount.backupData

-----------------------------------------------------------------------------
(* Claims about VersionUtils (VersionSpec) *)

\* the major, minor and patch number of a version, missing parts being 0
Triple(v) == <<IF Len(v) >= 1 THEN v[1] ELSE 0,
               IF Len(v) >= 2 THEN v[2] ELSE 0,
               IF Len(v) >= 3 THEN v[3] ELSE 0>>

\* a comes before b: major, then minor, then patch, each compared as a number
Before(a, b) ==
    \/ a[1] < b[1]
    \/ a[1] = b[1] /\ a[2] < b[2]
    \/ a[1] = b[1] /\ a[2] = b[2] /\ a[3] < b[3]

\* C25: compare orders versions by major, then minor, then patch, as
\* numbers; it is 0 only for equal triples, antisymmetric and transitive;
\* exactly one of isLessThan, isEqual, isGreaterThan holds; needsMigration
\* holds exactly for versions below STORAGE_VERSION.
C25_CompareIsNumericOrder ==
    compared.result.called =>
        LET a == Triple(compared.v1)
            b == Triple(compared.v2)
            r == compared.result
        IN /\ r.compare = (IF a = b THEN 0 ELSE IF Before(a, b) THEN -1 ELSE 1)
           /\ r.reverse = 0 - r.compare
           /\ \A v3 \in ComparedVersionInputs :
                 (r.compare <= 0 /\ compare(compared.v2, v3) <= 0)
                     => compare(compared.v1, v3) <= 0
           /\ r.isLessThan = (r.compare < 0)
           /\ r.isEqual = (r.compare = 0)
           /\ r.isGreaterThan = (r.compare > 0)
           /\ Cardinality({x \in {"less", "equal", "greater"} :
                              \/ x = "less" /\ r.isLessThan
                              \/ x = "equal" /\ r.isEqual
                              \/ x = "greater" /\ r.isGreaterThan}) = 1
           /\ r.needsMigration = Before(a, Triple(STORAGE_VERSION))

\* 1.10.0 was compared with 1.9.0
C25_Witness ==
    /\ compared.result.called
    /\ compared.v1 = <<1, 10, 0>>
    /\ compared.v2 = <<1, 9, 0>>
    /\ compared.result.compare = 1

-----------------------------------------------------------------------------
(* Claims about the integrity checks (ValidateSpec) *)

\* the duplicate-id check of validateDataStructure found a duplicate
DuplicateIdsFound ==
    \E i \in DOMAIN validated.structure.errors :
        validated.structure.errors[i] = "Duplicate IDs found in matrix data"

\* C26: validateMatrixIntegrity accepts a matrix exactly when
\* validateReferentialIntegrity accepts it and the duplicate-id check of
\* validateDataStructure finds the ids of goal, focus areas and tasks
\* pairwise distinct.
C26_IntegrityChecksAgree ==
    validated.called =>
        (validated.integrity.isValid
            <=> (validated.referential.isValid /\ ~DuplicateIdsFound))


\* the version, last-saved and compressed keys are present exactly when the
\* primary payload is, and tell what the payload holds
SiblingKeysAgree(store) ==
    IF store.matrixData.kind = "none"
    THEN /\ store.version = NoVersion
         /\ store.lastSaved = NoDate
         /\ store.compressed = Absent
    ELSE /\ store.matrixData.kind = "json"
         /\ store.matrixData.value.isObject
         /\ store.version = store.matrixData.value.version
         /\ store.lastSaved = store.matrixData.value.lastSaved
         /\ store.compressed = (IF store.matrixData.base64 THEN "true" ELSE "false")

\* C28: a call of saveMatrixData or clearMatrixData on a store whose sibling
\* keys agree with the primary payload leaves a store whose sibling keys
\* agree with it, also when a store write fails and the call raises; after
\* a save, loadMatrixData returns what it returned before the call or what
\* it returns after the same save with no failing write.
C28_SiblingKeysFollowPayload ==
    [][(/\ storeOp'.name \in {"saveMatrixData", "clearMatrixData"}
        /\ storeOp'.count = storeOp.count + 1
        /\ SiblingKeysAgree(localStorage))
       => /\ SiblingKeysAgree(localStorage')
          /\ storeOp'.name = "saveMatrixData" =>
                \/ loadMatrixData(localStorage', migrations)
                      = loadMatrixData(localStorage, migrations)
                \/ \E escaped \in EscapedInputs :
                      loadMatrixData(localStorage', migrations)
                        = loadMatrixData(
                            saveMatrixData(localStorage, saveResult'.matrixData,
                                           StoreNow, saveResult'.length,
                                           escaped, 0).store,
                            migrations)]_vars

\* the tasks of a matrix, as a set
TaskSet(data) == {data.tasks[i] : i \in DOMAIN data.tasks}

\* C30: handleTaskReorder changes only the order of the tasks: the set of
\* tasks of the matrix after a reorder equals the set before it, and no task
\* occurs twice, whatever the status and priority filters are.
C30_ReorderKeepsTasks ==
    [][app'.lastEvent = "handleTaskReorder" =>
          /\ TaskSet(app'.matrixData) = TaskSet(app.matrixData)
          /\ Len(app'.matrixData.tasks) = Len(app.matrixData.tasks)]_vars
=============================================================================
